---- MODULE Spec2Model ----
(***************************************************************************)
(* Model of the pricing engine of KABS-Quotation-AI                        *)
(* (services/pricingEngine.ts, held in src/unnamed/part_002 lines 176-887).*)
(*                                                                         *)
(* Strings are TLC strings; a character is a string of length 1.  Regular  *)
(* expressions of the source are written out as operators that scan the    *)
(* string the way the regular expression does (leftmost match, greedy      *)
(* quantifiers).  Whitespace is the space character.  Numbers of the       *)
(* source are IEEE doubles; here they are exact rationals [n, d], so a     *)
(* rounding (toFixed, Math.round) rounds the exact value half up.          *)
(***************************************************************************)
EXTENDS Integers, Sequences, FiniteSets, TLC

VARIABLES
    pc,            \* which step the run is at
    args,          \* calculate: the arguments of the call (items, manufacturer,
                   \* tierId, specs, financials, roomSpecs)
    idx,           \* calculate: the position of items.forEach
    results,       \* calculate: the results array
    locals,        \* calculate: id -> the callback's locals when it pushed that item
    raw,           \* normalize run: the raw code handed to normalizeNKBACode
    once,          \* normalize run: normalizeNKBACode(raw)
    twice,         \* normalize run: normalizeNKBACode(once)
    lookup,        \* find run: the arguments of findCatalogPrice
    answer,        \* find run: what findCatalogPrice returned
    unsorted,      \* sort run: the array before results.sort
    ordered,       \* sort run: the array after results.sort
    keyItem,       \* key run: the item handed to generateSmartKeys
    smartKeys,     \* key run: what generateSmartKeys returned
    entry,         \* column run: the arguments of getPriceFromItem
    chosen,        \* column run: what getPriceFromItem returned
    attempt,       \* fallback run: the position of the loop in MODEL_PRIORITY
    retries,       \* fallback run: the retries counted so far
    delay,         \* fallback run: the milliseconds of the next backoff
    lastError,     \* fallback run: the status of the last error caught, 0 when none
    callLog,       \* fallback run: the calls of generateContent so far, model and status
    waited,        \* fallback run: the backoffs waited so far, in milliseconds
    bucket,        \* cache run: the catalog file of the manufacturer in the storage
                   \* bucket, as the number of the catalog it holds; 0 when there is none
    catalogCache,  \* cache run: the entry of the manufacturer in catalogCache; 0 when none
    getters,       \* cache run: the calls of getManufacturerCatalog, where each one is
    writer,        \* cache run: the call of saveManufacturer or deleteManufacturer
    ops,           \* cache run: the saves, deletes and clears started so far
    latest,        \* cache run: the catalog of the save completed last, -1 after a
                   \* delete; 0 once a save, a delete or a clear has started since
    served         \* cache run: what getManufacturerCatalog returned last

calcVars == <<args, idx, results, locals>>

normVars == <<raw, once, twice>>

\* the variables of the runs of one function: findCatalogPrice, results.sort
pureVars == <<lookup, answer, unsorted, ordered>>

keysVars == <<keyItem, smartKeys>>

\* the variables of the runs added after the calculation, the normalizer and the functions
columnVars == <<entry, chosen>>

fallbackVars == <<attempt, retries, delay, lastError, callLog, waited>>

cacheVars == <<bucket, catalogCache, getters, writer, ops, latest, served>>

laterVars == <<keysVars, columnVars, fallbackVars, cacheVars>>

vars == <<pc, calcVars, normVars, pureVars, laterVars>>

(***************************************************************************)
(* Characters and elementary string operations                             *)
(***************************************************************************)
Digits == {"0", "1", "2", "3", "4", "5", "6", "7", "8", "9"}

UpperAlphabet == "ABCDEFGHIJKLMNOPQRSTUVWXYZ"

LowerAlphabet == "abcdefghijklmnopqrstuvwxyz"

UpperLetters == {SubSeq(UpperAlphabet, i, i) : i \in 1..26}

LowerLetters == {SubSeq(LowerAlphabet, i, i) : i \in 1..26}

Ch(s, i) == SubSeq(s, i, i)

IsDigit(c) == c \in Digits

IsUpper(c) == c \in UpperLetters

IsAlnum(c) == IsDigit(c) \/ IsUpper(c)

IsSpace(c) == c = " "

From(s, i) == SubSeq(s, i, Len(s))

StartsWith(s, p) == Len(p) <= Len(s) /\ SubSeq(s, 1, Len(p)) = p

EndsWith(s, p) == Len(p) <= Len(s) /\ SubSeq(s, Len(s) - Len(p) + 1, Len(s)) = p

DropLast(s, n) == SubSeq(s, 1, Len(s) - n)

\* s.includes(p)
Includes(s, p) == \E i \in 1..(Len(s) - Len(p) + 1) : SubSeq(s, i, i + Len(p) - 1) = p

\* s.indexOf(p), 1-based; 0 when p does not occur
IndexOf(s, p) ==
    IF Includes(s, p)
    THEN CHOOSE i \in 1..(Len(s) - Len(p) + 1) :
            /\ SubSeq(s, i, i + Len(p) - 1) = p
            /\ \A j \in 1..(i - 1) : SubSeq(s, j, j + Len(p) - 1) # p
    ELSE 0

\* s.replace(p, r) with a string pattern: the first occurrence only
ReplaceFirst(s, p, r) ==
    LET i == IndexOf(s, p)
    IN IF i = 0 THEN s ELSE SubSeq(s, 1, i - 1) \o r \o From(s, i + Len(p))

\* s.replace(/p/g, r) for a literal p
RECURSIVE ReplaceAll(_, _, _)
ReplaceAll(s, p, r) ==
    LET i == IndexOf(s, p)
    IN IF i = 0 THEN s
       ELSE SubSeq(s, 1, i - 1) \o r \o ReplaceAll(From(s, i + Len(p)), p, r)

UpperChar(c) ==
    IF c \in LowerLetters
    THEN Ch(UpperAlphabet, CHOOSE i \in 1..26 : Ch(LowerAlphabet, i) = c)
    ELSE c

LowerChar(c) ==
    IF c \in UpperLetters
    THEN Ch(LowerAlphabet, CHOOSE i \in 1..26 : Ch(UpperAlphabet, i) = c)
    ELSE c

RECURSIVE ToUpperCase(_)
ToUpperCase(s) == IF s = "" THEN "" ELSE UpperChar(Head(s)) \o ToUpperCase(Tail(s))

RECURSIVE ToLowerCase(_)
ToLowerCase(s) == IF s = "" THEN "" ELSE LowerChar(Head(s)) \o ToLowerCase(Tail(s))

RECURSIVE TrimStart(_)
TrimStart(s) == IF s # "" /\ IsSpace(Head(s)) THEN TrimStart(Tail(s)) ELSE s

RECURSIVE TrimEnd(_)
TrimEnd(s) == IF s # "" /\ IsSpace(Ch(s, Len(s))) THEN TrimEnd(DropLast(s, 1)) ELSE s

Trim(s) == TrimEnd(TrimStart(s))

\* s.replace(/\s+/g, ' ')
RECURSIVE CollapseSpaces(_)
CollapseSpaces(s) ==
    IF s = "" THEN ""
    ELSE IF IsSpace(Head(s)) THEN " " \o CollapseSpaces(TrimStart(s))
    ELSE Head(s) \o CollapseSpaces(Tail(s))

\* s.replace(/\s+/g, '')
RECURSIVE RemoveSpaces(_)
RemoveSpaces(s) ==
    IF s = "" THEN ""
    ELSE IF IsSpace(Head(s)) THEN RemoveSpaces(Tail(s))
    ELSE Head(s) \o RemoveSpaces(Tail(s))

\* the length of the longest run of characters of class cls that starts at s[i]
RECURSIVE RunLen(_, _, _)
RunLen(s, i, cls) ==
    IF i <= Len(s) /\ Ch(s, i) \in cls THEN 1 + RunLen(s, i + 1, cls) ELSE 0

\* the length of the longest run of characters of class cls that ends s
RECURSIVE TrailingRun(_, _)
TrailingRun(s, cls) ==
    IF s # "" /\ Ch(s, Len(s)) \in cls THEN 1 + TrailingRun(DropLast(s, 1), cls) ELSE 0

TrailingDigits(s) == TrailingRun(s, Digits)

Spaces == {" "}

Alnums == Digits \cup UpperLetters

\* every character of s is of class cls
AllIn(s, cls) == \A i \in 1..Len(s) : Ch(s, i) \in cls

(***************************************************************************)
(* Numbers: exact rationals [n, d] with d > 0, kept in lowest terms         *)
(***************************************************************************)
Min(S) == CHOOSE x \in S : \A y \in S : x <= y

RECURSIVE Gcd(_, _)
Gcd(a, b) == IF b = 0 THEN a ELSE Gcd(b, a % b)

Abs(x) == IF x < 0 THEN 0 - x ELSE x

Rat(n, d) ==
    LET g == Gcd(Abs(n), d)
    IN [n |-> n \div g, d |-> d \div g]

Num(k) == [n |-> k, d |-> 1]

Zero == Num(0)

One == Num(1)

Hundred == Num(100)

RAdd(a, b) == Rat(a.n * b.d + b.n * a.d, a.d * b.d)

RSub(a, b) == Rat(a.n * b.d - b.n * a.d, a.d * b.d)

RMul(a, b) == Rat(a.n * b.n, a.d * b.d)

\* a / b for b > 0
RDiv(a, b) == Rat(a.n * b.d, a.d * b.n)

RLess(a, b) == a.n * b.d < b.n * a.d

\* JavaScript truthiness of a number
Truthy(a) == a.n # 0

\* a rounded half up to a multiple of 1/scale, as a count of those units:
\* Math.round(a) is RoundUnits(a, 1); Number(a.toFixed(2)) is RoundUnits(a, 100)
\* hundredths (a >= 0 throughout the model)
RoundUnits(a, scale) == (2 * a.n * scale + a.d) \div (2 * a.d)

DigitString == "0123456789"

DigitValue(c) == (CHOOSE i \in 1..10 : Ch(DigitString, i) = c) - 1

\* parseInt of a string of digits
RECURSIVE ParseInt(_)
ParseInt(s) ==
    IF s = "" THEN 0 ELSE 10 * ParseInt(DropLast(s, 1)) + DigitValue(Ch(s, Len(s)))

\* `${n}` for an integer n
RECURSIVE NatToString(_)
NatToString(n) ==
    IF n < 10 THEN Ch(DigitString, n + 1)
    ELSE NatToString(n \div 10) \o Ch(DigitString, (n % 10) + 1)

IntToString(n) == IF n < 0 THEN "-" \o NatToString(0 - n) ELSE NatToString(n)

(***************************************************************************)
(* normalizeNKBACode (part_002:179-255)                                    *)
(***************************************************************************)
\* code.replace(/([A-Z])\s+(\d)/g, '$1$2')
RECURSIVE JoinLetterDigit(_)
JoinLetterDigit(s) ==
    IF s = "" THEN ""
    ELSE LET k == RunLen(s, 2, Spaces)
         IN IF /\ IsUpper(Head(s))
               /\ k > 0
               /\ 2 + k <= Len(s)
               /\ IsDigit(Ch(s, 2 + k))
            THEN Head(s) \o Ch(s, 2 + k) \o JoinLetterDigit(From(s, 3 + k))
            ELSE Head(s) \o JoinLetterDigit(Tail(s))

\* if (/^[A-Z]+<noise>\d{2}/.test(code)) code = code.replace(/([A-Z]+)<noise>(\d{2})/, '$1$2')
\* for noise "10" and then "0"
FixNoiseBeforeSize(s, noise) ==
    LET n == RunLen(s, 1, UpperLetters)
        k == Len(noise)
    IN IF /\ n > 0
          /\ Len(s) >= n + k + 2
          /\ SubSeq(s, n + 1, n + k) = noise
          /\ IsDigit(Ch(s, n + k + 1))
          /\ IsDigit(Ch(s, n + k + 2))
       THEN SubSeq(s, 1, n) \o From(s, n + k + 1)
       ELSE s

\* code.replace(/-?<mark>$/, '')
StripOptDash(s, mark) ==
    IF EndsWith(s, "-" \o mark) THEN DropLast(s, Len(mark) + 1)
    ELSE IF EndsWith(s, mark) THEN DropLast(s, Len(mark))
    ELSE s

\* code.replace(/\([LR]\)$/, '')
StripParenDirection(s) ==
    IF EndsWith(s, "(L)") \/ EndsWith(s, "(R)") THEN DropLast(s, 3) ELSE s

\* the length of the match of /\s*X\s*\d+\s*DP/ that starts at s[i]; 0 when none
DepthNoteLen(s, i) ==
    LET a == RunLen(s, i, Spaces)
        b == RunLen(s, i + a + 1, Spaces)
        d == RunLen(s, i + a + 1 + b, Digits)
        c == RunLen(s, i + a + 1 + b + d, Spaces)
        e == i + a + 1 + b + d + c
    IN IF /\ i + a <= Len(s)
          /\ Ch(s, i + a) = "X"
          /\ d > 0
          /\ e + 1 <= Len(s)
          /\ SubSeq(s, e, e + 1) = "DP"
       THEN e + 2 - i
       ELSE 0

\* the length of the match of /\d*TD/ that starts at s[i]; 0 when none
TrayDividerLen(s, i) ==
    LET d == RunLen(s, i, Digits)
    IN IF i + d + 1 <= Len(s) /\ SubSeq(s, i + d, i + d + 1) = "TD"
       THEN d + 2
       ELSE 0

\* code.replace(/\s*X\s*\d+\s*DP/g, '')
RECURSIVE RemoveDepthNotes(_, _)
RemoveDepthNotes(s, i) ==
    IF i > Len(s) THEN ""
    ELSE LET m == DepthNoteLen(s, i)
         IN IF m > 0
            THEN RemoveDepthNotes(s, i + m)
            ELSE Ch(s, i) \o RemoveDepthNotes(s, i + 1)

\* code.replace(/\d*TD/g, '')
RECURSIVE RemoveTrayDividers(_, _)
RemoveTrayDividers(s, i) ==
    IF i > Len(s) THEN ""
    ELSE LET m == TrayDividerLen(s, i)
         IN IF m > 0
            THEN RemoveTrayDividers(s, i + m)
            ELSE Ch(s, i) \o RemoveTrayDividers(s, i + 1)

\* code.replace(/(?<!\d)\./g, '')
RECURSIVE DropDotsNotAfterDigit(_, _)
DropDotsNotAfterDigit(s, i) ==
    IF i > Len(s) THEN ""
    ELSE (IF Ch(s, i) = "." /\ ~(i > 1 /\ IsDigit(Ch(s, i - 1))) THEN "" ELSE Ch(s, i))
         \o DropDotsNotAfterDigit(s, i + 1)

\* code.replace(/\.(?!\d)/g, '')
RECURSIVE DropDotsNotBeforeDigit(_, _)
DropDotsNotBeforeDigit(s, i) ==
    IF i > Len(s) THEN ""
    ELSE (IF Ch(s, i) = "." /\ ~(i < Len(s) /\ IsDigit(Ch(s, i + 1))) THEN "" ELSE Ch(s, i))
         \o DropDotsNotBeforeDigit(s, i + 1)

\* t matches /(-?[0-9A-Z]+)?$/ in full
ConstructionTailOk(t) ==
    \/ t = ""
    \/ LET u == IF Head(t) = "-" THEN Tail(t) ELSE t
       IN u # "" /\ AllIn(u, Alnums)

\* code.replace(/([0-9]+)<mark>(-?[0-9A-Z]+)?$/, '$1') for mark AH, VH, PH:
\* the leftmost digit run that is followed by the mark and a tail to the end
StripConstruction(s, mark) ==
    LET Hit(q) == /\ IsDigit(Ch(s, q))
                  /\ SubSeq(s, q + 1, q + 2) = mark
                  /\ ConstructionTailOk(From(s, q + 3))
        hits == {q \in 1..(Len(s) - 2) : Hit(q)}
    IN IF hits = {} THEN s
       ELSE SubSeq(s, 1, CHOOSE q \in hits : \A r \in hits : q <= r)

\* if (/[0-9][LR]$/.test(code) || /[0-9]-[LR]$/.test(code)) code = code.replace(/-?[LR]$/, '')
StripDirection(s) ==
    LET n == Len(s)
        dir == n >= 1 /\ Ch(s, n) \in {"L", "R"}
    IN IF dir /\ n >= 2 /\ IsDigit(Ch(s, n - 1)) THEN DropLast(s, 1)
       ELSE IF dir /\ n >= 3 /\ Ch(s, n - 1) = "-" /\ IsDigit(Ch(s, n - 2)) THEN DropLast(s, 2)
       ELSE s

\* code.replace(/-?FE[LR]?$/, '')
StripFinishedEnd(s) ==
    IF EndsWith(s, "-FEL") \/ EndsWith(s, "-FER") THEN DropLast(s, 4)
    ELSE IF EndsWith(s, "FEL") \/ EndsWith(s, "FER") \/ EndsWith(s, "-FE") THEN DropLast(s, 3)
    ELSE IF EndsWith(s, "FE") THEN DropLast(s, 2)
    ELSE s

\* The replacement of the mis-decoded euro sign (part_002:185) is left out: the
\* codes of the model are ASCII, on which it changes nothing.
NormalizeSymbols(s) == ReplaceAll(ReplaceAll(s, "$", "B"), "@", "0")

NormalizeSpacing(s) == JoinLetterDigit(Trim(CollapseSpaces(s)))

NormalizeOcrSize(s) == FixNoiseBeforeSize(FixNoiseBeforeSize(s, "10"), "0")

NormalizeCosmetic(s) ==
    ReplaceAll(
      RemoveTrayDividers(
        RemoveDepthNotes(StripParenDirection(StripOptDash(s, "2B")), 1),
        1),
      "ROT", "")

NormalizeDots(s) == DropDotsNotBeforeDigit(DropDotsNotAfterDigit(s, 1), 1)

NormalizeConstruction(s) ==
    StripConstruction(StripConstruction(StripConstruction(s, "AH"), "VH"), "PH")

NormalizeHeavyDuty(s) == IF EndsWith(s, "HD") THEN DropLast(s, 2) ELSE s

NormalizeDishwasher(s) == IF StartsWith(s, "DHW") THEN ReplaceFirst(s, "DHW", "DW") ELSE s

NormalizeHanding(s) == StripOptDash(StripOptDash(StripDirection(s), "LH"), "RH")

NormalizeFinishedEnd(s) == StripOptDash(StripFinishedEnd(s), "FE")

normalizeNKBACode(rawCode) ==
    IF rawCode = "" THEN ""
    ELSE NormalizeFinishedEnd(
           NormalizeHanding(
             NormalizeDishwasher(
               NormalizeHeavyDuty(
                 NormalizeConstruction(
                   NormalizeDots(
                     NormalizeCosmetic(
                       NormalizeOcrSize(
                         NormalizeSpacing(
                           NormalizeSymbols(Trim(ToUpperCase(rawCode))))))))))))

(***************************************************************************)
(* isGarbageItem (part_002:258-289)                                        *)
(***************************************************************************)
badWords ==
    {"PAGE ", "OF PAGE", "SUB TOTAL", "SUBTOTAL", "GRAND TOTAL", "ORDER TOTAL",
     "TAX", "SHIPPING", "JOB NAME", "PROJECT:", "QUOTE:", "DATE:", "SIGNATURE",
     "CABINET SPECIFICATIONS", "CONSTRUCTION:", "DOOR STYLE:", "LAYOUT"}

applianceWords ==
    {"FRIDGE", "DISHWASHER", "RANGE", "OVEN", "MICROWAVE", "SINK", "FAUCET", "PAGE"}

\* /PAGE\s+\d+\s+OF\s+\d+/ matches at text[i]
PageOfAt(text, i) ==
    LET a == RunLen(text, i + 4, Spaces)
        b == RunLen(text, i + 4 + a, Digits)
        c == RunLen(text, i + 4 + a + b, Spaces)
        o == i + 4 + a + b + c
        d == RunLen(text, o + 2, Spaces)
        e == RunLen(text, o + 2 + d, Digits)
    IN /\ i + 3 <= Len(text)
       /\ SubSeq(text, i, i + 3) = "PAGE"
       /\ a > 0 /\ b > 0 /\ c > 0
       /\ o + 1 <= Len(text)
       /\ SubSeq(text, o, o + 1) = "OF"
       /\ d > 0 /\ e > 0

isCabinetCode(item) ==
    LET code == ToUpperCase(item.originalCode)
    IN /\ RunLen(code, 1, Alnums) >= 2
       /\ ~\E bad \in applianceWords : Includes(code, bad)

\* the filter without toUpperCase on the text
isGarbageItemCaseSensitive(item) ==
    LET text == item.originalCode \o " " \o item.description
    IN \/ \E i \in 1..Len(text) : PageOfAt(text, i)
       \/ \E w \in badWords : Includes(text, w)
       \/ Len(item.originalCode) > 50 /\ Includes(item.originalCode, " ")
       \/ item.originalCode = "KITCHEN" \/ item.description = "KITCHEN"

isGarbageItem(item) ==
    LET text == ToUpperCase(item.originalCode \o " " \o item.description)
    IN \/ \E i \in 1..Len(text) : PageOfAt(text, i)
       \/ \E w \in badWords : Includes(text, w)
       \/ Len(item.originalCode) > 50 /\ Includes(item.originalCode, " ")
       \/ item.originalCode = "KITCHEN" \/ item.description = "KITCHEN"
       \/ /\ Includes(text, "REFRIGERATOR")
          /\ ~Includes(text, "PANEL")
          /\ ~Includes(text, "CABINET")
          /\ ~isCabinetCode(item)
       \/ /\ Includes(text, "RANGE")
          /\ ~Includes(text, "HOOD")
          /\ ~Includes(text, "CABINET")
          /\ ~isCabinetCode(item)

(***************************************************************************)
(* generateSmartKeys (part_002:292-543)                                    *)
(***************************************************************************)
NoKeys == [exact |-> <<>>, similar |-> <<>>, processed |-> {}]

\* the push without the entry in processed
PushKeyUnrecorded(st, key, category) ==
    IF category = "exact"
    THEN [st EXCEPT !.exact = Append(@, key)]
    ELSE [st EXCEPT !.similar = Append(@, key)]

\* processed.add(key); exactKeys.push(key) or similarKeys.push(key)
PushKey(st, key, category) ==
    IF category = "exact"
    THEN [st EXCEPT !.exact = Append(@, key), !.processed = @ \cup {key}]
    ELSE [st EXCEPT !.similar = Append(@, key), !.processed = @ \cup {key}]

\* upper.match(/^([A-Z]+)(\d+)$/)
IsLettersDigits(s) ==
    LET l == RunLen(s, 1, UpperLetters)
    IN l > 0 /\ l < Len(s) /\ AllIn(From(s, l + 1), Digits)

Hyphenated(s) ==
    LET l == RunLen(s, 1, UpperLetters)
    IN SubSeq(s, 1, l) \o "-" \o From(s, l + 1)

\* upper.split('-')[0] and upper.split('-').slice(1).join('-')
BeforeDash(s) == SubSeq(s, 1, IndexOf(s, "-") - 1)

AfterDash(s) == From(s, IndexOf(s, "-") + 1)

CosmeticSuffix(suffix) ==
    \/ Len(suffix) <= 3
    \/ suffix = "BUTT"
    \/ suffix = "2B"
    \/ suffix # "" /\ AllIn(suffix, Digits)

neighborPrefixes == {"SB", "DB", "B", "VSB", "VDB", "W", "BBC", "S", "VB", "V"}

\* upper.match(/^([A-Z]+)(\d{2,3})$/) with a prefix of the neighbor families
HasNeighbors(s) ==
    LET l == RunLen(s, 1, UpperLetters)
    IN /\ l > 0
       /\ Len(s) - l \in {2, 3}
       /\ AllIn(From(s, l + 1), Digits)
       /\ SubSeq(s, 1, l) \in neighborPrefixes

\* the add calls of the neighbor generation, in order: <<key, category, allowNeighbors>>
NeighborAdds(s) ==
    LET l == RunLen(s, 1, UpperLetters)
        prefix == SubSeq(s, 1, l)
        w == ParseInt(From(s, l + 1))
        K(p, n) == <<p \o IntToString(n), "similar", FALSE>>
    IN <<K(prefix, w - 3), K(prefix, w + 3), K(prefix, w - 6), K(prefix, w + 6)>>
       \o (IF prefix = "SB" THEN <<K("B", w), K("VSB", w)>> ELSE <<>>)
       \o (IF prefix = "VSB" THEN <<K("SB", w), K("VDB", w)>> ELSE <<>>)

\* add (part_002:303-367): one call, and a sequence of calls in order
RECURSIVE add(_, _, _, _), addAll(_, _)
add(st, k, category, allowNeighbors) ==
    IF k = "" THEN st
    ELSE LET upper == RemoveSpaces(ToUpperCase(k))
         IN IF upper \in st.processed THEN st
            ELSE LET s1 == PushKey(st, upper, category)
                     s2 == IF IsLettersDigits(upper) /\ Hyphenated(upper) \notin s1.processed
                           THEN PushKey(s1, Hyphenated(upper), category)
                           ELSE s1
                     s3 == IF Includes(upper, "-") /\ CosmeticSuffix(AfterDash(upper))
                           THEN add(s2, BeforeDash(upper), category, allowNeighbors)
                           ELSE s2
                 IN IF allowNeighbors /\ HasNeighbors(upper)
                    THEN addAll(s3, NeighborAdds(upper))
                    ELSE s3

addAll(st, calls) ==
    IF calls = <<>> THEN st
    ELSE addAll(add(st, calls[1][1], calls[1][2], calls[1][3]), Tail(calls))

\* cleanCode.match(/(\d+)/)?.[0], "" when the code has no digit
FirstDigitRun(s) ==
    LET at == {i \in 1..Len(s) : IsDigit(Ch(s, i))}
    IN IF at = {} THEN "" ELSE SubSeq(s, Min(at), Min(at) + RunLen(s, Min(at), Digits) - 1)

\* cleanCode.match(/^([A-Z]+)(\d+)/), the matched text; "" when there is no match
LettersDigitsHead(s) ==
    LET l == RunLen(s, 1, UpperLetters)
        d == RunLen(s, l + 1, Digits)
    IN IF l > 0 /\ d > 0 THEN SubSeq(s, 1, l + d) ELSE ""

\* cleanCode.match(/^([A-Z0-9]+)(\d{2})([A-Z]+)(-\d+)$/): prefix, width, -digits
\* joined; "" when there is no match
MiddleLetterKey(s) ==
    LET d == TrailingDigits(s)
        dash == Len(s) - d
        body == SubSeq(s, 1, dash - 1)
        l == TrailingRun(body, UpperLetters)
        head == DropLast(body, l)
    IN IF /\ d > 0 /\ dash >= 1 /\ Ch(s, dash) = "-"
          /\ l > 0
          /\ Len(head) >= 3
          /\ AllIn(head, Alnums)
          /\ IsDigit(Ch(head, Len(head))) /\ IsDigit(Ch(head, Len(head) - 1))
       THEN head \o From(s, dash)
       ELSE ""

standardWidths == <<9, 12, 15, 18, 21, 24, 27, 30, 33, 36, 39, 42, 45, 48>>

\* the add calls of the standard-size fallback (strategy 8), in order
RECURSIVE StandardAdds(_, _, _)
StandardAdds(prefix, numPart, i) ==
    IF i > Len(standardWidths) THEN <<>>
    ELSE (IF Abs(numPart - standardWidths[i]) <= 2
          THEN <<<<prefix \o IntToString(standardWidths[i]), "similar", FALSE>>>>
          ELSE <<>>)
         \o StandardAdds(prefix, numPart, i + 1)

\* the add calls of strategy 6, keys built from the dimensions
DimensionAdds(item) ==
    LET w == IntToString(item.width)
        E(k) == <<k, "exact", FALSE>>
        hWall == IntToString(IF item.height # 0 THEN item.height ELSE 30)
        hTall == IntToString(IF item.height # 0 THEN item.height ELSE 84)
    IN IF item.width <= 0 THEN <<>>
       ELSE IF item.type = "Wall"
       THEN <<E("W" \o w \o hWall)>>
            \o (IF item.depth > 12 THEN <<E("W" \o w \o hWall \o "-24")>> ELSE <<>>)
       ELSE IF item.type = "Base"
       THEN <<E("B" \o w), E("DB" \o w), E("SB" \o w), E("3DB" \o w), E("B" \o w \o "D")>>
       ELSE IF item.type = "Tall"
       THEN <<E("U" \o w \o hTall), E("T" \o w \o hTall)>>
       ELSE IF item.type = "Filler"
       THEN <<E("F" \o w)>>
       ELSE IF item.type = "Panel"
       THEN <<E("PNL" \o w), E("BP" \o w)>>
       ELSE <<>>

\* the add calls of strategy 7, abbreviation expansion
AbbreviationAdds(cleanCode) ==
    LET nums == FirstDigitRun(cleanCode)
        E(k, nb) == <<k, "exact", nb>>
        S(k) == <<k, "similar", FALSE>>
        When(c, calls) == IF c THEN calls ELSE <<>>
    IN When(Len(cleanCode) > 1 /\ Head(cleanCode) = "S" /\ AllIn(Tail(cleanCode), Digits),
            <<E(ReplaceFirst(cleanCode, "S", "SB"), TRUE)>>)
       \o When(StartsWith(cleanCode, "WDH") /\ nums # "",
               <<S("WDC" \o nums \o "30"), S("W" \o nums \o "30")>>)
       \o When(StartsWith(cleanCode, "PDF") /\ nums # "",
               <<E("PNL" \o nums, FALSE), E("F" \o nums, FALSE)>>)
       \o When(StartsWith(cleanCode, "OUK") /\ nums # "",
               <<S("ACC" \o nums), S("KIT" \o nums)>>)
       \o When(StartsWith(cleanCode, "CE"),
               <<E(ReplaceFirst(cleanCode, "CE", "CM"), FALSE)>>)
       \o When(StartsWith(cleanCode, "TEP"), <<E("TEP2484", FALSE), E("TEP96", FALSE)>>)
       \o When(StartsWith(cleanCode, "BEP"), <<E("BEP24", FALSE)>>)
       \o When(StartsWith(cleanCode, "REP"), <<E("REP2496", FALSE), E("REP96", FALSE)>>)
       \o When(StartsWith(cleanCode, "BF"),
               <<E("F" \o ReplaceFirst(cleanCode, "BF", ""), FALSE), S("F3")>>)
       \o When(StartsWith(cleanCode, "WF"),
               <<E("F" \o ReplaceFirst(cleanCode, "WF", ""), FALSE), S("F3")>>)
       \o When(StartsWith(cleanCode, "F") /\ ~StartsWith(cleanCode, "FE"),
               <<S("BF" \o ReplaceFirst(cleanCode, "F", "")),
                 S("WF" \o ReplaceFirst(cleanCode, "F", ""))>>)

\* every add call of generateSmartKeys, in the order the code makes them
StrategyAdds(item, cleanCode, cleanNorm) ==
    LET originalCode == item.originalCode
        normalizedCode == item.normalizedCode
        E(k) == <<k, "exact", TRUE>>
        S(k, nb) == <<k, "similar", nb>>
        When(c, calls) == IF c THEN calls ELSE <<>>
        firstToken == ToUpperCase(Trim(SubSeq(originalCode, 1, IndexOf(originalCode, " ") - 1)))
        remainder == ReplaceFirst(cleanCode, "WDH", "")
        head == LettersDigitsHead(cleanCode)
        prefix == SubSeq(head, 1, RunLen(head, 1, UpperLetters))
        numPart == ParseInt(From(head, Len(prefix) + 1))
        dashes == Cardinality({i \in 1..Len(cleanCode) : Ch(cleanCode, i) = "-"})
    IN \* strategy 0: first token
       When(Includes(originalCode, " ") /\ Len(firstToken) > 2, <<E(firstToken)>>)
       \* strategy 1: explicit codes
       \o <<E(originalCode), E(cleanCode), E(normalizedCode), E(cleanNorm)>>
       \* strategy 1.5: VDB/VBD transposition
       \o When(Includes(cleanCode, "VDB"), <<E(ReplaceFirst(cleanCode, "VDB", "VBD"))>>)
       \o When(Includes(cleanCode, "VBD"), <<E(ReplaceFirst(cleanCode, "VBD", "VDB"))>>)
       \* strategy 2: /^([0-9A-Z]+)(\d{2})$/ with a height of 30..42 tacked on
       \o When(/\ Len(cleanCode) >= 3
               /\ AllIn(cleanCode, Alnums)
               /\ TrailingDigits(cleanCode) >= 2
               /\ ParseInt(From(cleanCode, Len(cleanCode) - 1)) \in 30..42,
               <<E(DropLast(cleanCode, 2))>>)
       \* strategy 3: wall/vanity confusion
       \o When(StartsWith(cleanCode, "WDH"),
               <<S("VDB" \o remainder, FALSE), S("VSB" \o remainder, FALSE),
                 S("SB" \o remainder, FALSE), S("DB" \o remainder, FALSE),
                 S("B" \o remainder, FALSE)>>)
       \* strategy 4a and 4b
       \o When(MiddleLetterKey(cleanCode) # "", <<S(MiddleLetterKey(cleanCode), TRUE)>>)
       \o When(head # "", <<S(head, TRUE)>>)
       \* strategy 5: internal dashes
       \o When(dashes >= 2, <<E(ReplaceAll(cleanCode, "-", ""))>>)
       \* strategy 6 and 7
       \o DimensionAdds(item)
       \o AbbreviationAdds(cleanCode)
       \* strategy 8: standard sizes
       \o When(head # "" /\ numPart < 100, StandardAdds(prefix, numPart, 1))

\* the add(...) calls of generateSmartKeys(item), in order
SmartKeyAdds(item) ==
    StrategyAdds(item, normalizeNKBACode(item.originalCode),
                 normalizeNKBACode(item.normalizedCode))

generateSmartKeys(item) == addAll(NoKeys, SmartKeyAdds(item))

(***************************************************************************)
(* The catalog: Record<sku, Record<column, price>>.  An object is the      *)
(* sequence of its entries in Object.keys order; an sku occurs once.       *)
(***************************************************************************)
SkuIndex(catalog, sku) ==
    LET hits == {i \in 1..Len(catalog) : catalog[i].sku = sku}
    IN IF hits = {} THEN 0 ELSE Min(hits)

\* catalog[sku] is truthy: the sku is a key (an entry is an object, truthy even when empty)
HasSku(catalog, sku) == SkuIndex(catalog, sku) # 0

\* catalog[sku], the columns of the entry
Columns(catalog, sku) == catalog[SkuIndex(catalog, sku)].cols

NoMatch == [found |-> FALSE, price |-> Zero, source |-> "", matchedSku |-> ""]

Found(price, source, sku) ==
    [found |-> TRUE, price |-> price, source |-> source, matchedSku |-> sku]

(***************************************************************************)
(* getPriceFromItem (part_002:622-646)                                     *)
(***************************************************************************)
\* Object.keys(item).find(...), as the index of the column; 0 when none
FuzzyTierColumn(cols, tierId) ==
    LET t == ToLowerCase(tierId)
        hits == {i \in 1..Len(cols) :
                    LET k == ToLowerCase(cols[i].name)
                    IN Includes(k, t) \/ Includes(t, k)}
    IN IF hits = {} THEN 0 ELSE Min(hits)

GenericColumn(cols) ==
    LET hits == {i \in 1..Len(cols) :
                    LET k == ToLowerCase(cols[i].name)
                    IN Includes(k, "price") \/ Includes(k, "list")}
    IN IF hits = {} THEN 0 ELSE Min(hits)

DirectColumn(cols, tierId) ==
    LET hits == {i \in 1..Len(cols) : cols[i].name = tierId}
    IN IF hits = {} THEN 0 ELSE Min(hits)

\* getPriceFromItem with the generic column looked for before the tier's columns
getPriceFromItemGenericFirst(cols, tierId, sku, method) ==
    LET direct == DirectColumn(cols, tierId)
        fuzzy == FuzzyTierColumn(cols, tierId)
        generic == GenericColumn(cols)
    IN IF generic # 0
       THEN Found(cols[generic].price,
                  "Catalog (" \o method \o " Generic '" \o cols[generic].name \o "')", sku)
       ELSE IF direct # 0
       THEN Found(cols[direct].price, "Catalog (" \o method \o " Tier)", sku)
       ELSE IF fuzzy # 0 /\ cols[fuzzy].name # ""
       THEN Found(cols[fuzzy].price,
                  "Catalog (" \o method \o " Fuzzy '" \o cols[fuzzy].name \o "')", sku)
       ELSE IF Len(cols) > 0
       THEN Found(cols[1].price,
                  "Catalog (" \o method \o " Fallback '" \o cols[1].name \o "')", sku)
       ELSE NoMatch

getPriceFromItem(cols, tierId, sku, method) ==
    LET direct == DirectColumn(cols, tierId)
        fuzzy == FuzzyTierColumn(cols, tierId)
        generic == GenericColumn(cols)
    IN IF direct # 0
       THEN Found(cols[direct].price, "Catalog (" \o method \o " Tier)", sku)
       ELSE IF fuzzy # 0 /\ cols[fuzzy].name # ""
       THEN Found(cols[fuzzy].price,
                  "Catalog (" \o method \o " Fuzzy '" \o cols[fuzzy].name \o "')", sku)
       ELSE IF Len(cols) = 1
       THEN Found(cols[1].price,
                  "Catalog (" \o method \o " Fallback '" \o cols[1].name \o "')", sku)
       ELSE IF generic # 0
       THEN Found(cols[generic].price,
                  "Catalog (" \o method \o " Generic '" \o cols[generic].name \o "')", sku)
       ELSE IF Len(cols) > 0
       THEN Found(cols[1].price,
                  "Catalog (" \o method \o " Blind Fallback '" \o cols[1].name \o "')", sku)
       ELSE NoMatch

(***************************************************************************)
(* normalizeLookup and findCatalogPrice (part_002:546-619)                 *)
(***************************************************************************)
\* The replacement of en and em dashes (part_002:549) is left out: the codes of
\* the model are ASCII.
normalizeLookup(sku) == RemoveSpaces(ToUpperCase(Trim(sku)))

\* strategy 3: /[A-Z]\d+$/.test(cleanSku), the key with a hyphen before the digits
CanInsertHyphen(cleanSku) ==
    LET k == TrailingDigits(cleanSku)
    IN k > 0 /\ k < Len(cleanSku) /\ IsUpper(Ch(cleanSku, Len(cleanSku) - k))

WithHyphen(cleanSku) ==
    LET k == TrailingDigits(cleanSku)
    IN DropLast(cleanSku, k) \o "-" \o From(cleanSku, Len(cleanSku) - k + 1)

\* strategy 4: cleanSku.match(/^(W\d{2})(\d{2})([A-Z]*)$/)
IsWallCode(cleanSku) ==
    /\ Len(cleanSku) >= 5
    /\ Ch(cleanSku, 1) = "W"
    /\ AllIn(SubSeq(cleanSku, 2, 5), Digits)
    /\ AllIn(From(cleanSku, 6), UpperLetters)

\* the candidates of the neighbor search, in the order they are probed
NeighborCandidates(cleanSku) ==
    LET prefix == SubSeq(cleanSku, 1, 3)
        h == ParseInt(SubSeq(cleanSku, 4, 5))
        suffix == From(cleanSku, 6)
        For(nh) == IF suffix = ""
                   THEN <<prefix \o IntToString(nh)>>
                   ELSE <<prefix \o IntToString(nh) \o suffix, prefix \o IntToString(nh)>>
    IN For(h + 1) \o For(h - 1) \o For(h + 2) \o For(h - 2)

\* the first element of the sequence of keys that the catalog holds; 0 when none
FirstHeld(catalog, keys) ==
    LET hits == {i \in 1..Len(keys) : HasSku(catalog, keys[i])}
    IN IF hits = {} THEN 0 ELSE Min(hits)

\* the shortest prefix instead of the longest
StrippedLengthShortest(catalog, cleanSku) ==
    LET hits == {i \in 3..(Len(cleanSku) - 1) : HasSku(catalog, SubSeq(cleanSku, 1, i))}
    IN IF hits = {} THEN 0 ELSE Min(hits)

\* strategy 5: the longest proper prefix of at least 3 characters that is a key; 0 when none
StrippedLength(catalog, cleanSku) ==
    LET hits == {i \in 3..(Len(cleanSku) - 1) : HasSku(catalog, SubSeq(cleanSku, 1, i))}
    IN IF hits = {} THEN 0 ELSE CHOOSE i \in hits : \A j \in hits : j <= i

\* strategy 6: cleanSku.match(/^([A-Z]{1,4}\d{2,5})/), "" when there is no match
CoreOf(cleanSku) ==
    LET l == RunLen(cleanSku, 1, UpperLetters)
        d == RunLen(cleanSku, l + 1, Digits)
    IN IF l >= 1 /\ l <= 4 /\ d >= 2
       THEN SubSeq(cleanSku, 1, l + (IF d > 5 THEN 5 ELSE d))
       ELSE ""

\* the loose strategies with the core extraction ahead of the suffix stripping
LooseCatalogPriceCoreFirst(cleanSku, catalog, tierId) ==
    LET cands == IF IsWallCode(cleanSku) THEN NeighborCandidates(cleanSku) ELSE <<>>
        nb == FirstHeld(catalog, cands)
        cut == StrippedLength(catalog, cleanSku)
        core == CoreOf(cleanSku)
    IN IF nb # 0
       THEN getPriceFromItem(Columns(catalog, cands[nb]), tierId, cands[nb],
                             "Neighbor (Matched " \o cands[nb] \o ")")
       ELSE IF core # "" /\ HasSku(catalog, core)
       THEN getPriceFromItem(Columns(catalog, core), tierId, core, "Core Extraction")
       ELSE IF cut # 0
       THEN getPriceFromItem(Columns(catalog, SubSeq(cleanSku, 1, cut)), tierId,
                             SubSeq(cleanSku, 1, cut),
                             "Similar (Stripped " \o From(cleanSku, cut + 1) \o ")")
       ELSE NoMatch

LooseCatalogPrice(cleanSku, catalog, tierId) ==
    LET cands == IF IsWallCode(cleanSku) THEN NeighborCandidates(cleanSku) ELSE <<>>
        nb == FirstHeld(catalog, cands)
        cut == StrippedLength(catalog, cleanSku)
        core == CoreOf(cleanSku)
    IN IF nb # 0
       THEN getPriceFromItem(Columns(catalog, cands[nb]), tierId, cands[nb],
                             "Neighbor (Matched " \o cands[nb] \o ")")
       ELSE IF cut # 0
       THEN getPriceFromItem(Columns(catalog, SubSeq(cleanSku, 1, cut)), tierId,
                             SubSeq(cleanSku, 1, cut),
                             "Similar (Stripped " \o From(cleanSku, cut + 1) \o ")")
       ELSE IF core # "" /\ HasSku(catalog, core)
       THEN getPriceFromItem(Columns(catalog, core), tierId, core, "Core Extraction")
       ELSE NoMatch

\* findCatalogPrice without strategy 3, the hyphen insertion
findCatalogPriceNoInsertion(rawSku, catalog, tierId, strict) ==
    LET cleanSku == normalizeLookup(rawSku)
        skuNoDash == ReplaceAll(cleanSku, "-", "")
    IN IF cleanSku = "" \/ cleanSku = "UNKNOWN" THEN NoMatch
       ELSE IF HasSku(catalog, cleanSku)
       THEN getPriceFromItem(Columns(catalog, cleanSku), tierId, cleanSku, "Exact")
       ELSE IF HasSku(catalog, skuNoDash)
       THEN getPriceFromItem(Columns(catalog, skuNoDash), tierId, cleanSku,
                             "Hyphen-Insensitive")
       ELSE IF strict THEN NoMatch
       ELSE LooseCatalogPrice(cleanSku, catalog, tierId)

\* findCatalogPrice that goes on to the loose strategies whatever strict says
findCatalogPriceAlwaysLoose(rawSku, catalog, tierId, strict) ==
    LET cleanSku == normalizeLookup(rawSku)
        skuNoDash == ReplaceAll(cleanSku, "-", "")
    IN IF cleanSku = "" \/ cleanSku = "UNKNOWN" THEN NoMatch
       ELSE IF HasSku(catalog, cleanSku)
       THEN getPriceFromItem(Columns(catalog, cleanSku), tierId, cleanSku, "Exact")
       ELSE IF HasSku(catalog, skuNoDash)
       THEN getPriceFromItem(Columns(catalog, skuNoDash), tierId, cleanSku,
                             "Hyphen-Insensitive")
       ELSE IF CanInsertHyphen(cleanSku) /\ HasSku(catalog, WithHyphen(cleanSku))
       THEN getPriceFromItem(Columns(catalog, WithHyphen(cleanSku)), tierId, cleanSku,
                             "Inserted-Hyphen")
       ELSE LooseCatalogPrice(cleanSku, catalog, tierId)

findCatalogPrice(rawSku, catalog, tierId, strict) ==
    LET cleanSku == normalizeLookup(rawSku)
        skuNoDash == ReplaceAll(cleanSku, "-", "")
    IN IF cleanSku = "" \/ cleanSku = "UNKNOWN" THEN NoMatch
       ELSE IF HasSku(catalog, cleanSku)
       THEN getPriceFromItem(Columns(catalog, cleanSku), tierId, cleanSku, "Exact")
       ELSE IF HasSku(catalog, skuNoDash)
       THEN getPriceFromItem(Columns(catalog, skuNoDash), tierId, cleanSku,
                             "Hyphen-Insensitive")
       ELSE IF CanInsertHyphen(cleanSku) /\ HasSku(catalog, WithHyphen(cleanSku))
       THEN getPriceFromItem(Columns(catalog, WithHyphen(cleanSku)), tierId, cleanSku,
                             "Inserted-Hyphen")
       ELSE IF strict THEN NoMatch
       ELSE LooseCatalogPrice(cleanSku, catalog, tierId)

(***************************************************************************)
(* calculateProjectPricing (part_002:648-887), the work on one item        *)
(*                                                                         *)
(* A ProjectSpecs object is a function from the keys it holds to their     *)
(* values; {...specs, ...roomSpecs[room]} is Overlay.  An absent number    *)
(* (undefined) is Zero wherever the code only tests it for truthiness.     *)
(***************************************************************************)
NoSpecs == [k \in {} |-> ""]

\* the merge in which the value of the first object wins
OverlayUnderWins(under, over) ==
    [k \in DOMAIN under \cup DOMAIN over |-> IF k \in DOMAIN under THEN under[k] ELSE over[k]]

Overlay(under, over) ==
    [k \in DOMAIN under \cup DOMAIN over |-> IF k \in DOMAIN over THEN over[k] ELSE under[k]]

optionNameKeys ==
    <<"drawerBox", "hingeType", "woodSpecies", "finishColor", "glaze", "finishOption1",
      "finishOption2", "printedEndOption", "wallDoorOption", "baseDoorOption">>

potentialOptionNames(s) ==
    LET named == [i \in 1..Len(optionNameKeys) |->
                    IF optionNameKeys[i] \in DOMAIN s THEN s[optionNameKeys[i]] ELSE ""]
        dynamic == IF "dynamicSelections" \in DOMAIN s THEN s["dynamicSelections"] ELSE <<>>
    IN SelectSeq(named \o dynamic, LAMBDA val : val \notin {"", "None", "Standard", "No"})

getOptionsForSpecs(options, s) ==
    LET names == potentialOptionNames(s)
        checkboxOptions ==
            SelectSeq(options, LAMBDA opt :
                "selectedOptions" \in DOMAIN s /\ opt.id \in s["selectedOptions"])
        dropdownOptions ==
            SelectSeq(options, LAMBDA opt :
                \E i \in 1..Len(names) : ToLowerCase(names[i]) = ToLowerCase(opt.name))
    IN checkboxOptions
       \o SelectSeq(dropdownOptions, LAMBDA d :
              ~\E i \in 1..Len(checkboxOptions) : checkboxOptions[i].id = d.id)

\* globalTier ? globalTier.name : (specs?.priceGroup || 'Standard')
globalTierName(manufacturer, tierId, specs) ==
    LET byId == {i \in 1..Len(manufacturer.tiers) : manufacturer.tiers[i].id = tierId}
    IN IF byId # {} THEN manufacturer.tiers[Min(byId)].name
       ELSE IF manufacturer.tiers # <<>> THEN manufacturer.tiers[1].name
       ELSE IF "priceGroup" \in DOMAIN specs /\ specs["priceGroup"] # "" THEN specs["priceGroup"]
       ELSE "Standard"

hasRoomOverride(item, roomSpecs) == item.room # "" /\ item.room \in DOMAIN roomSpecs

effectiveSpecs(item, specs, roomSpecs) ==
    IF hasRoomOverride(item, roomSpecs) THEN Overlay(specs, roomSpecs[item.room]) ELSE specs

effectiveTierName(item, manufacturer, tierId, specs, roomSpecs) ==
    LET eff == effectiveSpecs(item, specs, roomSpecs)
    IN IF /\ hasRoomOverride(item, roomSpecs)
          /\ "priceGroup" \in DOMAIN eff
          /\ eff["priceGroup"] # ""
       THEN eff["priceGroup"]
       ELSE globalTierName(manufacturer, tierId, specs)

\* activeOptions: the global options, or those of the merged specs of the room
activeOptions(item, manufacturer, specs, roomSpecs) ==
    getOptionsForSpecs(manufacturer.options, effectiveSpecs(item, specs, roomSpecs))

\* 1. MODIFICATIONS: the entries logged, each with the price added to optionsPrice
ModificationLog(item) ==
    [i \in 1..Len(item.modifications) |->
        [name |-> item.modifications[i].description,
         price |-> item.modifications[i].price,
         sourceSection |-> "PDF Extraction"]]

\* 2. MANUFACTURER OPTIONS: the applicability rules
applies(opt, item) ==
    /\ ~(opt.section = "E-Drawer" /\ item.type # "Base")
    /\ ~(opt.section = "F-Hinge" /\ item.type = "Filler")
    /\ ~(opt.section = "F-Hinge" /\ item.type = "Panel")
    /\ ~(Includes(ToLowerCase(opt.name), "wall") /\ item.type # "Wall")
    /\ ~(Includes(ToLowerCase(opt.name), "base") /\ item.type # "Base")
    /\ ~(Len(opt.name) > 50 /\ opt.price = Zero)

FixedLogEntry(opt, item) ==
    LET addPrice == IF opt.pricingType = "fixed" THEN opt.price ELSE Zero
    IN IF /\ applies(opt, item)
          /\ (RLess(Zero, addPrice) \/ (opt.price = Zero /\ Len(opt.name) < 50))
       THEN <<[name |-> opt.name, price |-> addPrice, sourceSection |-> opt.section]>>
       ELSE <<>>

RECURSIVE FixedLog(_, _)
FixedLog(opts, item) ==
    IF opts = <<>> THEN <<>>
    ELSE FixedLogEntry(opts[1], item) \o FixedLog(Tail(opts), item)

\* the stored value always taken as a percentage
pctAlwaysDivided(opt) == RDiv(opt.price, Hundred)

\* 4. PERCENTAGE OPTIONS
pctOf(opt) == IF RLess(One, opt.price) THEN RDiv(opt.price, Hundred) ELSE opt.price

PercentageLogEntry(opt, basePrice) ==
    LET pct == pctOf(opt)
        addPrice == RMul(basePrice, pct)
    IN IF opt.pricingType # "percentage" \/ (Len(opt.name) > 50 /\ addPrice = Zero)
       THEN <<>>
       ELSE <<[name |-> opt.name \o " (" \o IntToString(RoundUnits(RMul(pct, Hundred), 1))
                        \o "%)",
               price |-> addPrice,
               sourceSection |-> opt.section]>>

RECURSIVE PercentageLog(_, _)
PercentageLog(opts, basePrice) ==
    IF opts = <<>> THEN <<>>
    ELSE PercentageLogEntry(opts[1], basePrice) \o PercentageLog(Tail(opts), basePrice)

\* optionsPrice: every logged entry was added to it when it was logged
RECURSIVE SumPrices(_)
SumPrices(log) ==
    IF log = <<>> THEN Zero ELSE RAdd(log[1].price, SumPrices(Tail(log)))

\* `if (match) break` and `if (!match)`: a later pass runs only when there is no match yet
OrElse(match, later) == IF match.found THEN match ELSE later

Relabelled(match, source) == IF match.found THEN [match EXCEPT !.source = source] ELSE match

\* passes 2 and 3: the first key of the list with a strict match, relabelled
RECURSIVE FirstStrictHit(_, _, _, _)
FirstStrictHit(keys, catalog, tierName, label) ==
    IF keys = <<>> THEN NoMatch
    ELSE OrElse(Relabelled(findCatalogPrice(Head(keys), catalog, tierName, TRUE),
                           "Catalog (" \o label \o " Match '" \o Head(keys) \o "')"),
                FirstStrictHit(Tail(keys), catalog, tierName, label))

\* pass 5: catalogKeys.find(...), as the index of the entry; 0 when none
GlobalPrefixIndex(originalCode, catalog) ==
    LET cleanSku == normalizeLookup(originalCode)
        hits == {i \in 1..Len(catalog) :
                    LET normK == normalizeLookup(catalog[i].sku)
                    IN StartsWith(normK, cleanSku) /\ Len(normK) <= Len(cleanSku) + 3}
    IN IF cleanSku = "" \/ cleanSku = "UNKNOWN" \/ hits = {} THEN 0 ELSE Min(hits)

GlobalPrefixMatch(originalCode, catalog, tierName) ==
    LET i == GlobalPrefixIndex(originalCode, catalog)
    IN IF i = 0 THEN NoMatch
       ELSE getPriceFromItem(catalog[i].cols, tierName, catalog[i].sku,
                             "Catalog (Global Prefix Match '" \o catalog[i].sku \o "')")

\* the passes with the non-strict pass moved in front of the generated keys
LookupPassesLooseFirst(item, catalog, tierName, keys) ==
    OrElse(findCatalogPrice(item.originalCode, catalog, tierName, TRUE),
    OrElse(findCatalogPrice(item.originalCode, catalog, tierName, FALSE),
    OrElse(FirstStrictHit(keys.exact, catalog, tierName, "Exact"),
    OrElse(FirstStrictHit(keys.similar, catalog, tierName, "Similar"),
           GlobalPrefixMatch(item.originalCode, catalog, tierName)))))

\* passes 1 to 5 over the keys that generateSmartKeys returned
LookupPasses(item, catalog, tierName, keys) ==
    OrElse(findCatalogPrice(item.originalCode, catalog, tierName, TRUE),
    OrElse(FirstStrictHit(keys.exact, catalog, tierName, "Exact"),
    OrElse(FirstStrictHit(keys.similar, catalog, tierName, "Similar"),
    OrElse(findCatalogPrice(item.originalCode, catalog, tierName, FALSE),
           GlobalPrefixMatch(item.originalCode, catalog, tierName)))))

\* 3. BASE PRICE LOOKUP
LookupBasePrice(item, catalog, tierName) ==
    LookupPasses(item, catalog, tierName, generateSmartKeys(item))

\* the outcome without the fallback to the extracted price
MatchOutcomeWithoutExtracted(item, match) ==
    IF match.found
    THEN [basePrice |-> match.price, source |-> match.source, matchedSku |-> match.matchedSku]
    ELSE [basePrice |-> Zero, source |-> "NOT FOUND", matchedSku |-> item.originalCode]

\* basePrice, source and matchedSku once the lookup is done (part_002:790-800)
MatchOutcome(item, match) ==
    IF match.found
    THEN [basePrice |-> match.price, source |-> match.source, matchedSku |-> match.matchedSku]
    ELSE IF RLess(Zero, item.extractedPrice)
    THEN [basePrice |-> item.extractedPrice, source |-> "Extracted from PDF",
          matchedSku |-> item.originalCode]
    ELSE [basePrice |-> Zero, source |-> "NOT FOUND", matchedSku |-> item.originalCode]

\* financials?.pricingFactor || manufacturer.basePricingMultiplier || 1.0, or the room's
roomFactor(item, manufacturer, financials) ==
    LET globalFactor == IF Truthy(financials.pricingFactor) THEN financials.pricingFactor
                        ELSE IF Truthy(manufacturer.basePricingMultiplier)
                        THEN manufacturer.basePricingMultiplier
                        ELSE One
    IN IF /\ item.room # ""
          /\ item.room \in DOMAIN financials.roomFactors
          /\ Truthy(financials.roomFactors[item.room])
       THEN financials.roomFactors[item.room]
       ELSE globalFactor

marginDecimal(tierName, financials) ==
    LET name == IF tierName # "" THEN tierName ELSE "Standard"
        margin == IF /\ name \in DOMAIN financials.categoryMargins
                     /\ Truthy(financials.categoryMargins[name])
                  THEN financials.categoryMargins[name]
                  ELSE financials.globalMargin
    IN IF RLess(One, margin) THEN RDiv(margin, Hundred) ELSE margin

\* the margin applied as a markup on cost
unitSellMarkup(unitCost, margin) ==
    IF ~RLess(margin, One) THEN unitCost ELSE RMul(unitCost, RAdd(One, margin))

\* 4. Calculate Sell Price
unitSellOf(unitCost, margin) ==
    IF ~RLess(margin, One) THEN unitCost ELSE RDiv(unitCost, RSub(One, margin))

\* totalPrice before it is rounded
totalPriceOf(unitSell, quantity) == RMul(unitSell, Num(quantity))

\* steps 1, 2 and 4 of the callback and the cost and sell price, from the match on
PricedLocals(item, tierName, opts, match, factor, margin) ==
    LET outcome == MatchOutcome(item, match)
        log == ModificationLog(item) \o FixedLog(opts, item)
               \o PercentageLog(opts, outcome.basePrice)
        optionsPrice == SumPrices(log)
        unitCost == RMul(RAdd(outcome.basePrice, optionsPrice), factor)
        unitSell == unitSellOf(unitCost, margin)
    IN [match |-> match,
        basePrice |-> outcome.basePrice,
        source |-> outcome.source,
        matchedSku |-> outcome.matchedSku,
        optionsPrice |-> optionsPrice,
        appliedOptionsLog |-> log,
        effectiveTierName |-> tierName,
        roomFactor |-> factor,
        unitCost |-> unitCost,
        marginDecimal |-> margin,
        unitSell |-> unitSell,
        totalPrice |-> totalPriceOf(unitSell, item.quantity)]

\* the callback once the effective tier of the item is known
TierLocals(item, manufacturer, financials, tierName, opts) ==
    PricedLocals(item, tierName, opts,
                 LookupBasePrice(item, manufacturer.catalog, tierName),
                 roomFactor(item, manufacturer, financials),
                 marginDecimal(tierName, financials))

\* The values of the callback's local variables when it pushes the line item.
Locals(item, manufacturer, tierId, specs, financials, roomSpecs) ==
    TierLocals(item, manufacturer, financials,
               effectiveTierName(item, manufacturer, tierId, specs, roomSpecs),
               activeOptions(item, manufacturer, specs, roomSpecs))

\* results.push({...item, ...}) (part_002:856-873); money fields count cents
LineItem(item, l) ==
    [id |-> item.id,
     originalCode |-> item.originalCode,
     normalizedCode |-> l.matchedSku,
     type |-> item.type,
     description |-> item.description,
     width |-> item.width,
     height |-> item.height,
     depth |-> item.depth,
     quantity |-> item.quantity,
     room |-> item.room,
     modifications |-> item.modifications,
     extractedPrice |-> item.extractedPrice,
     basePrice |-> RoundUnits(l.basePrice, 1),
     optionsPrice |-> RoundUnits(l.optionsPrice, 1),
     tierMultiplier |-> 1,
     unitCost |-> RoundUnits(l.unitCost, 100),
     finalUnitPrice |-> RoundUnits(l.unitSell, 100),
     totalPrice |-> RoundUnits(l.totalPrice, 100),
     pricingFactor |-> l.roomFactor,
     margin |-> RMul(l.marginDecimal, Hundred),
     tierName |-> IF l.effectiveTierName # "" THEN l.effectiveTierName ELSE "Standard",
     source |-> l.source,
     appliedOptions |-> l.appliedOptionsLog]

(***************************************************************************)
(* The sort of the results (part_002:876-886)                              *)
(***************************************************************************)
typePriority(type) ==
    LET t == IF type = "" THEN "Base" ELSE type
    IN CASE t = "Base" -> 1
         [] t = "Wall" -> 2
         [] t = "Tall" -> 3
         [] t = "Panel" -> 4
         [] t = "Filler" -> 5
         [] t = "Accessory" -> 6
         [] t = "Modification" -> 7
         [] OTHER -> 99

\* The order of the characters under the root collation, case folded: white
\* space, punctuation, symbols, digits, letters.
CollationOrder == " _-,;:.()/&#+$0123456789abcdefghijklmnopqrstuvwxyz"

Weight(c) ==
    LET at == {i \in 1..Len(CollationOrder) : Ch(CollationOrder, i) = LowerChar(c)}
    IN IF at = {} THEN 0 ELSE Min(at)

\* a.localeCompare(b, undefined, { numeric: true, sensitivity: 'base' }) as -1, 0, 1
RECURSIVE localeCompare(_, _)
localeCompare(a, b) ==
    IF a = "" /\ b = "" THEN 0
    ELSE IF a = "" THEN -1
    ELSE IF b = "" THEN 1
    ELSE IF IsDigit(Head(a)) /\ IsDigit(Head(b))
    THEN LET da == RunLen(a, 1, Digits)
             db == RunLen(b, 1, Digits)
             na == ParseInt(SubSeq(a, 1, da))
             nb == ParseInt(SubSeq(b, 1, db))
         IN IF na < nb THEN -1
            ELSE IF na > nb THEN 1
            ELSE localeCompare(From(a, da + 1), From(b, db + 1))
    ELSE IF Weight(Head(a)) < Weight(Head(b)) THEN -1
    ELSE IF Weight(Head(a)) > Weight(Head(b)) THEN 1
    ELSE localeCompare(Tail(a), Tail(b))

\* a comparator that reads the codes alone
compareLinesByCode(a, b) == localeCompare(a.originalCode, b.originalCode)

\* the comparator handed to results.sort
compareLines(a, b) ==
    IF typePriority(a.type) # typePriority(b.type)
    THEN typePriority(a.type) - typePriority(b.type)
    ELSE localeCompare(a.originalCode, b.originalCode)

\* Array.prototype.sort is stable: x goes before the first element that sorts after it
InsertLine(sorted, x) ==
    LET after == {i \in 1..Len(sorted) : compareLines(sorted[i], x) > 0}
        at == IF after = {} THEN Len(sorted) + 1 ELSE Min(after)
    IN SubSeq(sorted, 1, at - 1) \o <<x>> \o SubSeq(sorted, at, Len(sorted))

RECURSIVE sortLines(_)
sortLines(lines) ==
    IF lines = <<>> THEN <<>>
    ELSE InsertLine(sortLines(SubSeq(lines, 1, Len(lines) - 1)), lines[Len(lines)])

(***************************************************************************)
(* The inputs of a run of calculateProjectPricing                          *)
(***************************************************************************)
\* the variables of the function runs while another run is modelled
PureIdle ==
    /\ lookup = [rawSku |-> "", catalog |-> <<>>, tierId |-> "", strict |-> TRUE]
    /\ answer = NoMatch
    /\ unsorted = <<>>
    /\ ordered = <<>>

\* the variables of the key run while another run is modelled
KeysIdle ==
    /\ keyItem = [originalCode |-> ""]
    /\ smartKeys = NoKeys

\* the variables of the column run while another run is modelled
ColumnIdle ==
    /\ entry = [cols |-> <<>>, tierId |-> ""]
    /\ chosen = NoMatch

\* the variables of the fallback run while another run is modelled
FallbackIdle ==
    /\ attempt = 0
    /\ retries = 0
    /\ delay = 0
    /\ lastError = 0
    /\ callLog = <<>>
    /\ waited = <<>>

\* the variables of the cache run while another run is modelled
CacheIdle ==
    /\ bucket = 0
    /\ catalogCache = 0
    /\ getters = <<>>
    /\ writer = [op |-> "none"]
    /\ ops = 0
    /\ latest = 0
    /\ served = [value |-> 0, after |-> 0]

LaterIdle == KeysIdle /\ ColumnIdle /\ FallbackIdle /\ CacheIdle

Col(name, price) == [name |-> name, price |-> price]

Sku(sku, cols) == [sku |-> sku, cols |-> cols]

\* the mock catalog of the pricing verification test (part_002:5-11), in Object.keys
\* order: the integer-like key first
TestCatalog ==
    <<Sku("7045", <<Col("Standard", Num(50))>>),
      Sku("B15", <<Col("Standard", Num(200))>>),
      Sku("FILLER", <<Col("Standard", Num(30))>>),
      Sku("VDB24", <<Col("Standard", Num(400))>>),
      Sku("VDB24-3", <<Col("Standard", Num(450))>>)>>

\* a catalog as the import builds it (Admin.tsx:544-570): keys are normalizeNKBACode
\* of the sheet's cell, which keeps the space of "SB33 BUTT"; a row without a
\* price leaves an entry without columns
DashCatalog ==
    <<Sku("VDB24-3", <<Col("Standard", Num(450))>>),
      Sku("SB33", <<Col("Standard", Num(200))>>),
      Sku("SB33 BUTT", <<Col("Standard", Num(300))>>),
      Sku("B18", <<Col("Standard", Rat(361, 2))>>),
      Sku("B21", <<>>)>>

ListCatalog ==
    <<Sku("SB33 BUTT", <<Col("Standard", Num(300))>>),
      Sku("W3624", <<Col("List Price", Num(1000)), Col("Oak", Num(1200))>>)>>

\* two keys that extend the code ZZ9, the longer one stored first
PrefixCatalog ==
    <<Sku("ZZ9-24", <<Col("Standard", Num(80))>>),
      Sku("ZZ9-2", <<Col("Standard", Num(70))>>)>>

Catalogs == {TestCatalog, DashCatalog, ListCatalog, PrefixCatalog}

Opt(id, name, section, pricingType, price) ==
    [id |-> id, name |-> name, section |-> section, pricingType |-> pricingType,
     price |-> price]

\* a name of more than 50 characters, as a line of descriptive text of an option sheet has
LongOptionName == "All doors and drawer fronts ship sanded and unfinish"

\* the option of the pricing debug test (part_002:108-117) and seven more; a sheet
\* cell "-20" is stored as a fixed price of -20 (Admin.tsx:79-104)
Options ==
    <<Opt("opt-1", "Finish: Painted", "D-Finish", "percentage", Num(15)),
      Opt("opt-2", "Soft Close", "F-Hinge", "fixed", Num(50)),
      Opt("opt-3", "Glaze", "D-Finish", "percentage", Rat(3, 20)),
      Opt("opt-4", "Base Drawer Upgrade", "E-Drawer", "fixed", Num(25)),
      Opt("opt-5", "Wall Door Upgrade", "B-Door", "fixed", Num(30)),
      Opt("opt-6", LongOptionName, "H-Notes", "fixed", Zero),
      Opt("opt-7", "Unfinished Credit", "D-Finish", "fixed", Num(-20)),
      Opt("opt-8", "Wall Glass Doors", "B-Door", "percentage", Num(10))>>

Tiers == <<[id |-> "standard", name |-> "Standard"], [id |-> "oak", name |-> "Oak"]>>

Manufacturers ==
    {[basePricingMultiplier |-> One, tiers |-> Tiers, options |-> Options, catalog |-> c] :
        c \in Catalogs}

TierIds == {"standard", "oak"}

SpecsChoices ==
    {NoSpecs,
     [k \in {"finishColor", "priceGroup"} |->
         IF k = "priceGroup" THEN "Oak" ELSE "Finish: Painted"],
     [k \in {"selectedOptions"} |-> {"opt-2", "opt-3", "opt-8"}],
     [k \in {"selectedOptions"} |-> {"opt-2", "opt-4", "opt-5", "opt-6", "opt-7"}]}

NoRooms == [r \in {} |-> Zero]

Financials(pricingFactor, globalMargin, roomFactors, categoryMargins) ==
    [pricingFactor |-> pricingFactor, globalMargin |-> globalMargin,
     roomFactors |-> roomFactors, categoryMargins |-> categoryMargins]

FinancialsChoices ==
    {Financials(Zero, Zero, NoRooms, NoRooms),
     Financials(Rat(45, 100), Num(35), NoRooms, NoRooms),
     Financials(Rat(1, 2), Rat(1, 5), [r \in {"Kitchen"} |-> Num(2)],
                [t \in {"Oak"} |-> Num(150)]),
     Financials(Rat(1, 2), Num(35), [r \in {"Kitchen"} |-> Zero],
                [t \in {"Standard", "Oak"} |-> Zero])}

RoomSpecsChoices ==
    {[r \in {} |-> NoSpecs],
     [r \in {"Kitchen", "Bath"} |->
         IF r = "Kitchen"
         THEN [k \in {"priceGroup", "finishColor"} |->
                  IF k = "priceGroup" THEN "Oak" ELSE "None"]
         ELSE [k \in {"hingeType"} |-> "Soft Close"]]}

Mod(description, price) == [description |-> description, price |-> price]

Item(id, code, type, description, dims, quantity, room, mods, extractedPrice) ==
    [id |-> id, originalCode |-> code, normalizedCode |-> normalizeNKBACode(code),
     type |-> type, description |-> description,
     width |-> dims[1], height |-> dims[2], depth |-> dims[3],
     quantity |-> quantity, room |-> room, modifications |-> mods,
     extractedPrice |-> extractedPrice]

\* the items a run draws from; the first four of the test (part_002:28-69) are among them
ItemPool ==
    <<Item("1", "W3625", "Wall", "Wall 36", <<36, 25, 12>>, 2, "Kitchen", <<>>, Zero),
      Item("2", "B15", "Base", "Base 15", <<15, 34, 24>>, 1, "", <<>>, Zero),
      Item("3", "VDB24AH-3", "Base", "Vanity", <<24, 34, 21>>, 1, "Bath", <<>>, Zero),
      Item("4", "SB33 BUTT", "Base", "Sink base", <<33, 34, 24>>, 3, "Kitchen", <<>>, Zero),
      Item("5", "SUBTOTAL", "Accessory", "", <<0, 0, 0>>, 1, "", <<>>, Zero),
      Item("6", "NOTE", "Accessory", "Grand Total", <<0, 0, 0>>, 1, "", <<>>, Num(900)),
      Item("7", "ZZ9", "Accessory", "Molding", <<0, 0, 0>>, 2, "",
           <<Mod("Finished side", Num(50))>>, Zero),
      Item("8", "ZZ8", "Accessory", "Valance", <<0, 0, 0>>, 1, "Kitchen", <<>>,
           Rat(251, 2)),
      Item("9", "FILLER", "Filler", "Filler Strip", <<3, 30, 0>>, 1, "", <<>>, Zero),
      Item("10", "BEP24", "Panel", "End Panel", <<24, 34, 0>>, 1, "", <<>>, Zero)>>

MaxItems == 2

\* the item lists of a run: the runs of at most MaxItems consecutive items of
\* the pool, the empty list among them (the callback shares nothing between
\* items but the results array)
ItemLists ==
    {SubSeq(ItemPool, r[1], r[1] + r[2] - 1) :
        r \in {q \in (1..Len(ItemPool)) \X (0..MaxItems) : q[1] + q[2] - 1 <= Len(ItemPool)}}

(***************************************************************************)
(* A run of calculateProjectPricing: items.forEach, then results.sort      *)
(***************************************************************************)
Arguments ==
    [items : ItemLists, manufacturer : Manufacturers, tierId : TierIds,
     specs : SpecsChoices, financials : FinancialsChoices, roomSpecs : RoomSpecsChoices]

Init ==
    /\ pc = "forEach"
    /\ args \in Arguments
    /\ idx = 1
    /\ results = <<>>
    /\ locals = [i \in {} |-> 0]
    /\ raw = ""
    /\ once = ""
    /\ twice = ""
    /\ PureIdle
    /\ LaterIdle

\* 0. Garbage Check: the callback returns without a line item
SkipGarbage ==
    /\ pc = "forEach"
    /\ idx <= Len(args.items)
    /\ isGarbageItem(args.items[idx])
    /\ idx' = idx + 1
    /\ UNCHANGED <<pc, args, results, locals, normVars, pureVars, laterVars>>

\* results.push of the callback, for the item and its locals
PushLine(item, l) ==
    /\ results' = Append(results, LineItem(item, l))
    /\ locals' = [i \in DOMAIN locals \cup {item.id} |->
                     IF i = item.id THEN l ELSE locals[i]]

\* the callback prices the item and pushes its line item
PriceItem ==
    /\ pc = "forEach"
    /\ idx <= Len(args.items)
    /\ ~isGarbageItem(args.items[idx])
    /\ PushLine(args.items[idx],
                Locals(args.items[idx], args.manufacturer, args.tierId, args.specs,
                       args.financials, args.roomSpecs))
    /\ idx' = idx + 1
    /\ UNCHANGED <<pc, args, normVars, pureVars, laterVars>>

\* return results.sort(...)
SortResults ==
    /\ pc = "forEach"
    /\ idx > Len(args.items)
    /\ results' = sortLines(results)
    /\ pc' = "done"
    /\ UNCHANGED <<args, idx, locals, normVars, pureVars, laterVars>>

Next == SkipGarbage \/ PriceItem \/ SortResults

Spec == Init /\ [][Next]_vars

(***************************************************************************)
(* The normalizer run: a raw code is normalized, and the result again.     *)
(***************************************************************************)
\* the pieces a raw code is assembled from
CodePieces ==
    {"B", "B15", "VDB", "W", "15", "27", "10", "0", "3", " ", "-", "L", "R",
     "LH", "FE", "HD", "AH", "2B", "TD", ".", "sb", "$", "X24DP"}

MaxPieces == 3

RECURSIVE CodesOf(_)
CodesOf(n) ==
    IF n = 0 THEN {""}
    ELSE LET shorter == CodesOf(n - 1)
         IN shorter \cup {c \o p : c \in shorter, p \in CodePieces}

RawCodes == CodesOf(MaxPieces)

\* the variables of calculateProjectPricing while another run is modelled
CalcIdle ==
    /\ args = [items |-> <<>>,
               manufacturer |-> [basePricingMultiplier |-> One, tiers |-> <<>>,
                                 options |-> <<>>, catalog |-> <<>>],
               tierId |-> "", specs |-> NoSpecs,
               financials |-> Financials(Zero, Zero, NoRooms, NoRooms),
               roomSpecs |-> [r \in {} |-> NoSpecs]]
    /\ idx = 1
    /\ results = <<>>
    /\ locals = [i \in {} |-> 0]

\* the variables of the normalizer run while another run is modelled
NormIdle ==
    /\ raw = ""
    /\ once = ""
    /\ twice = ""

NormInit ==
    /\ pc = "raw"
    /\ raw \in RawCodes
    /\ once = ""
    /\ twice = ""
    /\ CalcIdle
    /\ PureIdle
    /\ LaterIdle

NormalizeOnce ==
    /\ pc = "raw"
    /\ once' = normalizeNKBACode(raw)
    /\ pc' = "once"
    /\ UNCHANGED <<raw, twice, calcVars, pureVars, laterVars>>

NormalizeTwice ==
    /\ pc = "once"
    /\ twice' = normalizeNKBACode(once)
    /\ pc' = "twice"
    /\ UNCHANGED <<raw, once, calcVars, pureVars, laterVars>>

NormNext == NormalizeOnce \/ NormalizeTwice

SpecNormalize == NormInit /\ [][NormNext]_vars

(***************************************************************************)
(* A run of findCatalogPrice on its own, and of the lookup of one code     *)
(***************************************************************************)
\* the keys the catalogs of a find run are made of, each with one price
FindKeys ==
    <<"W3609", "W3610", "W3624", "W3626", "W3627", "W3624L", "B15", "B-15", "SB33", "SB-33",
      "UNKNOWN">>

FindPriceOf(i) == Num(100 + 10 * i)

MaxKeys == 2

\* the catalogs of a find run: at most MaxKeys of the keys, in the order of FindKeys
RECURSIVE CatalogOf(_, _)
CatalogOf(picked, i) ==
    IF i > Len(FindKeys) THEN <<>>
    ELSE IF i \in picked
    THEN <<Sku(FindKeys[i], <<Col("Standard", FindPriceOf(i))>>)>> \o CatalogOf(picked, i + 1)
    ELSE CatalogOf(picked, i + 1)

FindCatalogs ==
    {CatalogOf(picked, 1) :
        picked \in {q \in SUBSET (1..Len(FindKeys)) : Cardinality(q) <= MaxKeys}}

\* the codes a find run asks for
FindCodes ==
    {"W3608", "W3610", "W3611", "W3625", "W3625L", "W3628",
     "B15", "B-15", "b-15", "SB33", "SB-33", " sb-33 ", "", "UNKNOWN", " unknown"}

FindInit ==
    /\ pc = "find"
    /\ lookup \in [rawSku : FindCodes, catalog : FindCatalogs,
                    tierId : {"Standard"}, strict : BOOLEAN]
    /\ answer = NoMatch
    /\ unsorted = <<>>
    /\ ordered = <<>>
    /\ CalcIdle
    /\ NormIdle
    /\ LaterIdle

\* findCatalogPrice(rawSku, catalog, tierId, strict)
FindPrice ==
    /\ pc = "find"
    /\ answer' = findCatalogPrice(lookup.rawSku, lookup.catalog, lookup.tierId, lookup.strict)
    /\ pc' = "found"
    /\ UNCHANGED <<lookup, unsorted, ordered, calcVars, normVars, laterVars>>

\* the base price lookup of calculateProjectPricing for an item of that code
LookupCode ==
    /\ pc = "find"
    /\ answer' = LookupBasePrice(
                     Item("1", lookup.rawSku, "Base", "", <<0, 0, 0>>, 1, "", <<>>, Zero),
                     lookup.catalog, lookup.tierId)
    /\ pc' = "priced"
    /\ UNCHANGED <<lookup, unsorted, ordered, calcVars, normVars, laterVars>>

FindNext == FindPrice \/ LookupCode

SpecFind == FindInit /\ [][FindNext]_vars

(***************************************************************************)
(* A run of results.sort on its own                                        *)
(***************************************************************************)
\* the type and the code of the lines of a sort run
LinePool ==
    <<<<"Base", "B15">>, <<"Wall", "W20">>, <<"Base", "B2">>, <<"Base", "b15">>,
      <<"Tall", "T84">>, <<"Panel", "P1">>, <<"Filler", "F3">>, <<"Accessory", "A1">>,
      <<"Modification", "M1">>, <<"Hardware", "H1">>, <<"Misc", "A9">>, <<"", "B10">>>>

MaxLines == 3

\* a line of the results as the comparator reads it; id is its place in the array
SortLine(i, p) == [id |-> i, type |-> LinePool[p][1], originalCode |-> LinePool[p][2]]

SortArrays ==
    UNION {{[i \in 1..n |-> SortLine(i, f[i])] : f \in [1..n -> 1..Len(LinePool)]} :
              n \in 0..MaxLines}

SortInit ==
    /\ pc = "unsorted"
    /\ unsorted \in SortArrays
    /\ ordered = <<>>
    /\ lookup = [rawSku |-> "", catalog |-> <<>>, tierId |-> "", strict |-> TRUE]
    /\ answer = NoMatch
    /\ CalcIdle
    /\ NormIdle
    /\ LaterIdle

\* results.sort((a, b) => ...)
SortArray ==
    /\ pc = "unsorted"
    /\ ordered' = sortLines(unsorted)
    /\ pc' = "sorted"
    /\ UNCHANGED <<unsorted, lookup, answer, calcVars, normVars, laterVars>>

SortNext == SortArray

SpecSort == SortInit /\ [][SortNext]_vars

(***************************************************************************)
(* A run of generateSmartKeys on its own                                   *)
(***************************************************************************)
\* the codes, types and dimensions of the items of a key run
KeyCodes ==
    {"SB33", "B18", "W3630", "VDB27AH-3", "b 15", " sb33 butt", "B15-L", "BF3", "S33",
     "WDH2430", "PNL24", "3DB18-2B", "TEP", "U2484", "NEW"}

KeyTypes == {"Base", "Wall", "Tall", "Filler", "Panel", "Accessory"}

KeyWidths == {0, 18, 33}

KeyHeights == {0, 30}

KeyDepths == {12, 24}

KeyItems ==
    {Item("1", c, t, "", <<w, h, d>>, 1, "", <<>>, Zero) :
        c \in KeyCodes, t \in KeyTypes, w \in KeyWidths, h \in KeyHeights, d \in KeyDepths}

KeysInit ==
    /\ pc = "item"
    /\ keyItem \in KeyItems
    /\ smartKeys = NoKeys
    /\ CalcIdle
    /\ NormIdle
    /\ PureIdle
    /\ ColumnIdle
    /\ FallbackIdle
    /\ CacheIdle

\* generateSmartKeys(item)
GenerateKeys ==
    /\ pc = "item"
    /\ smartKeys' = generateSmartKeys(keyItem)
    /\ pc' = "keys"
    /\ UNCHANGED <<keyItem, calcVars, normVars, pureVars, columnVars, fallbackVars, cacheVars>>

KeysNext == GenerateKeys

SpecKeys == KeysInit /\ [][KeysNext]_vars

(***************************************************************************)
(* Properties of normalizeNKBACode                                         *)
(***************************************************************************)
\* C6: normalizeNKBACode is idempotent: normalizing its own result, whatever
\* the raw code was, returns that result unchanged.
C6_Idempotent == pc = "twice" => twice = once

(***************************************************************************)
(* Properties of the output of calculateProjectPricing                     *)
(***************************************************************************)
\* the line items calculate returns: results once the sort is done
Output == IF pc = "done" THEN results ELSE <<>>

\* the input item a line item was made from
InputOf(line) == args.items[CHOOSE i \in 1..Len(args.items) : args.items[i].id = line.id]

Cents(r) == RoundUnits(r, 100)

\* the price of the catalog entry keyed by the item's own code, in the tier
\* column resolved for the item
KeyPrice(it) ==
    getPriceFromItem(Columns(args.manufacturer.catalog, it.originalCode),
                     locals[it.id].effectiveTierName, it.originalCode, "Exact")

\* C1: every input item whose originalCode is a key of the catalog is output
\* as a line item whose source reports an "Exact" match and whose base price
\* is the price of that catalog entry in the resolved tier column.
C1_ExactKeyPriced ==
    pc = "done" =>
        \A i \in 1..Len(args.items) :
            HasSku(args.manufacturer.catalog, args.items[i].originalCode) =>
                \E j \in 1..Len(results) :
                    /\ results[j].id = args.items[i].id
                    /\ Includes(results[j].source, "Exact")
                    /\ KeyPrice(args.items[i]).found
                    /\ locals[args.items[i].id].basePrice = KeyPrice(args.items[i]).price

\* C2: on every output line item totalPrice is the emitted finalUnitPrice
\* times the quantity, rounded to cents (both fields count cents, so the
\* product is already a whole number of cents).
C2_TotalIsUnitTimesQuantity ==
    \A j \in 1..Len(Output) :
        Output[j].totalPrice = Output[j].finalUnitPrice * Output[j].quantity

\* C3: every output line item has a populated source; when no pass matched,
\* the base price is the item's extracted price with source "Extracted from
\* PDF" if that price is above 0, and otherwise 0 with source "NOT FOUND";
\* the source is "NOT FOUND" in that last case only.  The emitted basePrice
\* is the base price rounded to whole units.
C3_SourcePopulated ==
    \A j \in 1..Len(Output) :
        LET line == Output[j]
            l == locals[line.id]
            extracted == InputOf(line).extractedPrice
        IN /\ line.source # ""
           /\ line.source # "Unknown"
           /\ line.source = l.source
           /\ (~l.match.found /\ RLess(Zero, extracted)) =>
                  /\ l.basePrice = extracted
                  /\ line.basePrice = RoundUnits(extracted, 1)
                  /\ line.source = "Extracted from PDF"
           /\ (~l.match.found /\ ~RLess(Zero, extracted)) =>
                  /\ l.basePrice = Zero
                  /\ line.basePrice = 0
                  /\ line.source = "NOT FOUND"
           /\ line.source = "NOT FOUND" => (~l.match.found /\ ~RLess(Zero, extracted))

\* an output with an unmatched item priced from its extracted price and an
\* unmatched item without one
C3_BothFallbacks ==
    \E j, k \in 1..Len(Output) :
        /\ Output[j].source = "Extracted from PDF"
        /\ ~locals[Output[j].id].match.found
        /\ locals[Output[j].id].basePrice = InputOf(Output[j]).extractedPrice
        /\ Output[k].source = "NOT FOUND"
        /\ Output[k].basePrice = 0

\* C4: an output line item with source "NOT FOUND" is priced at zero: its
\* finalUnitPrice and its totalPrice are 0, whatever options, modifications,
\* factor and margin are in effect.
C4_NotFoundIsZeroPriced ==
    \A j \in 1..Len(Output) :
        Output[j].source = "NOT FOUND" =>
            (Output[j].finalUnitPrice = 0 /\ Output[j].totalPrice = 0)

\* how many line items of the results carry the id
LinesOf(id) == Cardinality({j \in 1..Len(results) : results[j].id = id})

\* C5: the results hold one line item, with the same id, for every input item
\* the garbage filter does not flag and none for a flagged one, so they are
\* never longer than the input; no line item has the originalCode "SUBTOTAL"
\* or a description containing "Grand Total" in any letter case.
C5_OneLinePerKeptItem ==
    /\ Len(results) <= Len(args.items)
    /\ \A i \in 1..Len(args.items) :
           /\ isGarbageItem(args.items[i]) => LinesOf(args.items[i].id) = 0
           /\ LinesOf(args.items[i].id) <= 1
           /\ (pc = "done" /\ ~isGarbageItem(args.items[i])) => LinesOf(args.items[i].id) = 1
    /\ \A j \in 1..Len(results) :
           /\ \E i \in 1..Len(args.items) : args.items[i].id = results[j].id
           /\ results[j].originalCode # "SUBTOTAL"
           /\ ~Includes(ToLowerCase(results[j].description), "grand total")

\* a finished run that dropped an item described as "Grand Total" and kept the other
C5_GrandTotalDropped ==
    /\ pc = "done"
    /\ Len(args.items) = 2
    /\ Len(results) = 1
    /\ \E i \in 1..Len(args.items) : args.items[i].description = "Grand Total"

\* the match the passes must end with, pass by pass: the first hit in the
\* order 1 to 5, and within passes 2 and 3 the first key that hits
FirstHitInOrder(it, catalog, tier) ==
    LET keys == generateSmartKeys(it)
        strict(k) == findCatalogPrice(k, catalog, tier, TRUE)
        hitsE == {i \in 1..Len(keys.exact) : strict(keys.exact[i]).found}
        hitsS == {i \in 1..Len(keys.similar) : strict(keys.similar[i]).found}
        loose == findCatalogPrice(it.originalCode, catalog, tier, FALSE)
    IN IF strict(it.originalCode).found THEN strict(it.originalCode)
       ELSE IF hitsE # {}
       THEN [strict(keys.exact[Min(hitsE)]) EXCEPT
                !.source = "Catalog (Exact Match '" \o keys.exact[Min(hitsE)] \o "')"]
       ELSE IF hitsS # {}
       THEN [strict(keys.similar[Min(hitsS)]) EXCEPT
                !.source = "Catalog (Similar Match '" \o keys.similar[Min(hitsS)] \o "')"]
       ELSE IF loose.found THEN loose
       ELSE GlobalPrefixMatch(it.originalCode, catalog, tier)

\* C7: for every output line item the match is the first hit of the passes
\* in the order (1) original code strict, (2) exact keys in generation order,
\* (3) similar keys in generation order, (4) original code non-strict,
\* (5) prefix scan; a pass-2 hit is tagged "Exact Match '<key>'" and a pass-3
\* hit "Similar Match '<key>'" with the key that hit, and the price and the
\* source of that match are the ones the line item uses.
C7_PassOrder ==
    \A j \in 1..Len(Output) :
        LET line == Output[j]
            l == locals[line.id]
        IN /\ l.match = FirstHitInOrder(InputOf(line), args.manufacturer.catalog,
                                        l.effectiveTierName)
           /\ l.match.found => (l.basePrice = l.match.price /\ line.source = l.match.source)

\* an output line item matched by a similar key, after pass 1 and every exact key missed
C7_SimilarKeyHit ==
    \E j \in 1..Len(Output) :
        /\ StartsWith(Output[j].source, "Catalog (Similar Match '")
        /\ ~findCatalogPrice(Output[j].originalCode, args.manufacturer.catalog,
                             locals[Output[j].id].effectiveTierName, TRUE).found

\* /^[A-Z]+\d{2}AH-\d+$/: letters, a two-digit width, "AH-" and a dash number
IsConstructionDashCode(code) ==
    LET a == RunLen(code, 1, UpperLetters)
    IN /\ a > 0
       /\ Len(code) > a + 5
       /\ RunLen(code, a + 1, Digits) = 2
       /\ SubSeq(code, a + 3, a + 5) = "AH-"
       /\ RunLen(code, a + 6, Digits) = Len(code) - (a + 5)

\* <letters><width> of such a code
BaseCodeOf(code) == SubSeq(code, 1, RunLen(code, 1, UpperLetters) + 2)

\* <letters><width>-<digits> of such a code
DashCodeOf(code) == BaseCodeOf(code) \o From(code, Len(BaseCodeOf(code)) + 3)

\* C8: an output line item whose code is <letters><2-digit width>AH-<digits>
\* is resolved to the catalog entry <letters><width> or <letters><width>-<digits>
\* whenever the catalog holds one of the two; its source is not "NOT FOUND".
C8_ConstructionDashResolved ==
    \A j \in 1..Len(Output) :
        LET code == Output[j].originalCode
            catalog == args.manufacturer.catalog
        IN (/\ IsConstructionDashCode(code)
            /\ HasSku(catalog, BaseCodeOf(code)) \/ HasSku(catalog, DashCodeOf(code))) =>
               /\ Output[j].source # "NOT FOUND"
               /\ Output[j].normalizedCode \in {BaseCodeOf(code), DashCodeOf(code)}

\* p of a percentage option: the stored value when it is at most 1, a
\* hundredth of it when it is above 1
FractionOf(price) == IF RLess(One, price) THEN RDiv(price, Hundred) ELSE price

\* what the selected percentage options add to a base price, option by option
PercentageShares(opts, basePrice) ==
    [i \in 1..Len(opts) |->
        [price |-> IF opts[i].pricingType = "percentage"
                   THEN RMul(basePrice, FractionOf(opts[i].price))
                   ELSE Zero]]

\* C9: on every output line item each selected percentage option adds base
\* price x p to optionsPrice, p being the stored value when it is <= 1 and
\* the stored value / 100 when it is > 1: the option is logged with that
\* price, and optionsPrice is the modifications and fixed options plus these.
C9_PercentageAdds ==
    \A j \in 1..Len(Output) :
        LET line == Output[j]
            l == locals[line.id]
            it == InputOf(line)
            opts == activeOptions(it, args.manufacturer, args.specs, args.roomSpecs)
        IN /\ \A i \in 1..Len(opts) :
                  opts[i].pricingType = "percentage" =>
                      \E e \in 1..Len(line.appliedOptions) :
                          /\ StartsWith(line.appliedOptions[e].name, opts[i].name \o " (")
                          /\ line.appliedOptions[e].sourceSection = opts[i].section
                          /\ line.appliedOptions[e].price =
                                 RMul(l.basePrice, FractionOf(opts[i].price))
           /\ l.optionsPrice =
                  RAdd(SumPrices(ModificationLog(it) \o FixedLog(opts, it)),
                       SumPrices(PercentageShares(opts, l.basePrice)))
           /\ line.optionsPrice = RoundUnits(l.optionsPrice, 1)

\* an output line item with base price 200 on which the option stored as 15 adds 30
C9_FifteenPercentOfTwoHundred ==
    \E j \in 1..Len(Output) :
        /\ locals[Output[j].id].basePrice = Num(200)
        /\ \E e \in 1..Len(Output[j].appliedOptions) :
               /\ Output[j].appliedOptions[e].name = "Finish: Painted (15%)"
               /\ Output[j].appliedOptions[e].price = Num(30)
        /\ Output[j].optionsPrice = 30

\* C10: on every output line item unitCost is (base price + options price) x
\* the effective factor, and finalUnitPrice is that cost when the margin
\* fraction is >= 1 and the cost / (1 - margin fraction) otherwise, each
\* rounded to cents when emitted.
C10_CostAndSell ==
    \A j \in 1..Len(Output) :
        LET line == Output[j]
            l == locals[line.id]
            cost == RMul(RAdd(l.basePrice, l.optionsPrice), line.pricingFactor)
            fraction == RDiv(line.margin, Hundred)
        IN /\ line.unitCost = Cents(cost)
           /\ line.finalUnitPrice =
                  IF ~RLess(fraction, One) THEN Cents(cost)
                  ELSE Cents(RDiv(cost, RSub(One, fraction)))

\* factor 0.45, margin 35 and base + options 1000: unitCost 450.00, finalUnitPrice 692.31
C10_MarginExample ==
    \E j \in 1..Len(Output) :
        /\ Output[j].pricingFactor = Rat(45, 100)
        /\ Output[j].margin = Num(35)
        /\ RAdd(locals[Output[j].id].basePrice, locals[Output[j].id].optionsPrice) = Num(1000)
        /\ Output[j].unitCost = 45000
        /\ Output[j].finalUnitPrice = 69231

(***************************************************************************)
(* Properties of findCatalogPrice                                          *)
(***************************************************************************)
\* the price the catalog of the find run holds for a key, in the tier asked for
HeldPrice(key) ==
    LET cols == Columns(lookup.catalog, key)
        i == CHOOSE j \in 1..Len(cols) : cols[j].name = lookup.tierId
    IN cols[i].price

HeldKeys == {lookup.catalog[i].sku : i \in 1..Len(lookup.catalog)}

\* W, a 2-digit width, a 2-digit height and a suffix of letters
IsWallKey(key) ==
    /\ Len(key) >= 5
    /\ SubSeq(key, 1, 1) = "W"
    /\ \A i \in 2..5 : SubSeq(key, i, i) \in {"0", "1", "2", "3", "4", "5", "6", "7", "8", "9"}
    /\ \A i \in 6..Len(key) : SubSeq(key, i, i) \in UpperLetters

HeightOf(key) == ParseInt(SubSeq(key, 4, 5))

\* the keys held with the width of the code, its suffix or none, and a height 1 or 2 away
NeighborsHeld(code) ==
    {k \in HeldKeys :
        /\ IsWallKey(k)
        /\ SubSeq(k, 1, 3) = SubSeq(code, 1, 3)
        /\ Abs(HeightOf(k) - HeightOf(code)) \in {1, 2}
        /\ From(k, 6) \in {From(code, 6), ""}}

\* strategies 1 to 3 match nothing: the strict call finds nothing
StrictMisses ==
    ~findCatalogPrice(lookup.rawSku, lookup.catalog, lookup.tierId, TRUE).found

\* C11: a loose findCatalogPrice for a wall code W<width><height>[suffix] that
\* strategies 1 to 3 do not match returns, whenever the catalog holds a key of the
\* same width whose height is 1 or 2 away, the price of such a key, with a source
\* that mentions Neighbor.
C11_NeighborFound ==
    (/\ pc = "found"
     /\ ~lookup.strict
     /\ IsWallKey(lookup.rawSku)
     /\ StrictMisses
     /\ NeighborsHeld(lookup.rawSku) # {})
    => /\ answer.found
       /\ Includes(answer.source, "Neighbor")
       /\ \E k \in NeighborsHeld(lookup.rawSku) : answer.price = HeldPrice(k)

\* the example of C11: the catalog holds W3624 alone and W3625 is asked for
C11_Example ==
    /\ pc = "found"
    /\ ~lookup.strict
    /\ lookup.rawSku = "W3625"
    /\ HeldKeys = {"W3624"}
    /\ answer.found
    /\ answer.price = HeldPrice("W3624")
    /\ Includes(answer.source, "Neighbor")

\* a is b with a hyphen put between its prefix of letters and its trailing digits
HyphenPut(a, b) ==
    \E i \in 1..(Len(b) - 1) :
        /\ AllIn(SubSeq(b, 1, i), UpperLetters)
        /\ AllIn(From(b, i + 1), Digits)
        /\ a = SubSeq(b, 1, i) \o "-" \o From(b, i + 1)

\* the keys held that differ from the code by that hyphen only, in either direction
HyphenTwins(code) == {k \in HeldKeys : HyphenPut(code, k) \/ HyphenPut(k, code)}

\* C13: a code that differs from a catalog key only by a hyphen between its prefix
\* of letters and its trailing digits is priced from that key, whichever of the two
\* has the hyphen, by the strict findCatalogPrice and so by the first pass of the lookup.
C13_HyphenEitherWay ==
    (/\ pc \in {"found", "priced"}
     /\ pc = "found" => lookup.strict
     /\ lookup.rawSku \notin HeldKeys
     /\ HyphenTwins(lookup.rawSku) # {})
    => /\ answer.found
       /\ \E k \in HyphenTwins(lookup.rawSku) : answer.price = HeldPrice(k)
       /\ Includes(answer.source, "Hyphen")

\* C13 happens: B15 is priced from the key B-15 by the lookup of an item
C13_InsertedHyphen ==
    /\ pc = "priced"
    /\ lookup.rawSku = "B15"
    /\ "B-15" \in HeldKeys
    /\ answer.found
    /\ answer.price = HeldPrice("B-15")
    /\ Includes(answer.source, "Inserted-Hyphen")

(***************************************************************************)
(* Properties of the sort                                                  *)
(***************************************************************************)
PriorityTable == <<"Base", "Wall", "Tall", "Panel", "Filler", "Accessory", "Modification">>

\* the place of a type in the table, one past its end for every other type; a line
\* without a type counts as Base
RankOf(type) ==
    LET t == IF type = "" THEN "Base" ELSE type
        at == {i \in 1..Len(PriorityTable) : PriorityTable[i] = t}
    IN IF at = {} THEN Len(PriorityTable) + 1 ELSE CHOOSE i \in at : TRUE

CodesIn(lines) == [i \in 1..Len(lines) |-> lines[i].originalCode]

\* C12: the sorted array holds the lines of the input, ordered by the priority of
\* the type (Base, Wall, Tall, Panel, Filler, Accessory, Modification, then every
\* other type), within one priority by originalCode in natural numeric-aware
\* order, and lines that tie are in the order of the input.
C12_SortedByTypeThenCode ==
    pc = "sorted" =>
        /\ Len(ordered) = Len(unsorted)
        /\ {ordered[i] : i \in 1..Len(ordered)} = {unsorted[i] : i \in 1..Len(unsorted)}
        /\ \A i, j \in 1..Len(ordered) :
              i < j =>
                  \/ RankOf(ordered[i].type) < RankOf(ordered[j].type)
                  \/ /\ RankOf(ordered[i].type) = RankOf(ordered[j].type)
                     /\ localeCompare(ordered[i].originalCode, ordered[j].originalCode) < 0
                  \/ /\ RankOf(ordered[i].type) = RankOf(ordered[j].type)
                     /\ localeCompare(ordered[i].originalCode, ordered[j].originalCode) = 0
                     /\ ordered[i].id < ordered[j].id

\* C12 happens: a Wall W20 given first ends behind the Base lines, and B2 is before B15
C12_BaseBeforeWall ==
    /\ pc = "sorted"
    /\ CodesIn(unsorted) = <<"W20", "B15", "B2">>
    /\ CodesIn(ordered) = <<"B2", "B15", "W20">>

(***************************************************************************)
(* Properties of the items and line items                                  *)
(***************************************************************************)
\* C14: the normalizedCode of every line item calculate returns is
\* normalizeNKBACode of its originalCode.
C14_NormalizedCodeDerived ==
    \A j \in 1..Len(Output) :
        Output[j].normalizedCode = normalizeNKBACode(Output[j].originalCode)

(***************************************************************************)
(* Properties of the options, the room overrides, the factor and the margin *)
(***************************************************************************)
\* the exclusion rules of a manufacturer option for an item
Excluded(opt, it) ==
    \/ opt.section = "E-Drawer" /\ it.type # "Base"
    \/ opt.section = "F-Hinge" /\ it.type \in {"Filler", "Panel"}
    \/ Includes(ToLowerCase(opt.name), "wall") /\ it.type # "Wall"
    \/ Includes(ToLowerCase(opt.name), "base") /\ it.type # "Base"
    \/ Len(opt.name) > 50 /\ opt.price = Zero

\* what the selected fixed options add to optionsPrice, option by option
FixedShares(opts, it) ==
    [i \in 1..Len(opts) |->
        [price |-> IF opts[i].pricingType = "fixed" /\ ~Excluded(opts[i], it)
                   THEN opts[i].price
                   ELSE Zero]]

\* C15: on every output line item a selected fixed option adds its price to
\* optionsPrice if and only if no exclusion rule holds for the item:
\* optionsPrice is the modifications and the percentage options plus the prices
\* of the selected fixed options that are not excluded.
C15_FixedAddsUnlessExcluded ==
    \A j \in 1..Len(Output) :
        LET line == Output[j]
            l == locals[line.id]
            it == InputOf(line)
            opts == activeOptions(it, args.manufacturer, args.specs, args.roomSpecs)
        IN l.optionsPrice =
               RAdd(SumPrices(ModificationLog(it)),
                    RAdd(SumPrices(FixedShares(opts, it)),
                         SumPrices(PercentageShares(opts, l.basePrice))))

\* the room of the item has a room-specific spec override
Overridden(it) == it.room # "" /\ it.room \in DOMAIN args.roomSpecs

\* the global specs overlaid by the specs of the room: the room wins on every key both hold
MergedSpecs(it) ==
    LET room == args.roomSpecs[it.room]
    IN [k \in DOMAIN args.specs \cup DOMAIN room |->
           IF k \in DOMAIN room THEN room[k] ELSE args.specs[k]]

\* the specs an item is to be priced with
SpecsFor(it) == IF Overridden(it) THEN MergedSpecs(it) ELSE args.specs

\* the tier name an item is to be priced with
TierNameFor(it) ==
    IF Overridden(it) /\ "priceGroup" \in DOMAIN MergedSpecs(it)
                      /\ MergedSpecs(it)["priceGroup"] # ""
    THEN MergedSpecs(it)["priceGroup"]
    ELSE globalTierName(args.manufacturer, args.tierId, args.specs)

\* C16: every output line item is priced with the specs of its item: the global
\* specs overlaid by those of the room when the room has an override (the room
\* wins), the global specs otherwise; the options applied are those selected by
\* these specs and the tier name is the price group of the merge, or the global
\* tier name when there is no override or no price group.
C16_RoomOverride ==
    \A j \in 1..Len(Output) :
        LET line == Output[j]
            l == locals[line.id]
            it == InputOf(line)
            opts == getOptionsForSpecs(args.manufacturer.options, SpecsFor(it))
        IN /\ l.effectiveTierName = TierNameFor(it)
           /\ line.tierName = TierNameFor(it)
           /\ l.appliedOptionsLog =
                  ModificationLog(it) \o FixedLog(opts, it)
                      \o PercentageLog(opts, l.basePrice)
           /\ line.appliedOptions = l.appliedOptionsLog

\* C16 happens: the finish selected globally is set to None for the Kitchen, whose
\* price group is Oak; the Kitchen item is priced in the Oak column without the finish
C16_KitchenInOak ==
    \E j \in 1..Len(Output) :
        /\ Output[j].room = "Kitchen"
        /\ "Kitchen" \in DOMAIN args.roomSpecs
        /\ args.tierId = "standard"
        /\ "finishColor" \in DOMAIN args.specs
        /\ args.specs["finishColor"] = "Finish: Painted"
        /\ Output[j].tierName = "Oak"
        /\ Output[j].basePrice = 1200
        /\ Output[j].appliedOptions = <<>>

\* the cost factor an item is to be priced with
FactorFor(it) ==
    IF it.room \in DOMAIN args.financials.roomFactors
    THEN args.financials.roomFactors[it.room]
    ELSE IF args.financials.pricingFactor # Zero THEN args.financials.pricingFactor
    ELSE IF args.manufacturer.basePricingMultiplier # Zero
    THEN args.manufacturer.basePricingMultiplier
    ELSE One

\* C17: the cost factor of every output line item is the factor roomFactors holds
\* for the room of the item whenever it holds one, whatever its value; otherwise
\* financials.pricingFactor when one is given, otherwise the manufacturer's
\* basePricingMultiplier, otherwise 1.
C17_RoomFactorWhenPresent ==
    \A j \in 1..Len(Output) :
        /\ locals[Output[j].id].roomFactor = FactorFor(InputOf(Output[j]))
        /\ Output[j].pricingFactor = FactorFor(InputOf(Output[j]))

\* the margin an item is to be priced with, before it is made a fraction
MarginFor(tierName) ==
    IF tierName \in DOMAIN args.financials.categoryMargins
    THEN args.financials.categoryMargins[tierName]
    ELSE args.financials.globalMargin

\* C18: the margin of every output line item is the one categoryMargins holds for
\* the effective tier name of the item whenever it holds one, whatever its value,
\* 0 included, and globalMargin otherwise; a value above 1 is divided by 100.
C18_CategoryMarginWhenConfigured ==
    \A j \in 1..Len(Output) :
        LET l == locals[Output[j].id]
            m == MarginFor(Output[j].tierName)
        IN /\ l.marginDecimal = FractionOf(m)
           /\ Output[j].margin = RMul(FractionOf(m), Hundred)

(***************************************************************************)
(* Properties of the prefix scan and of the generated keys                 *)
(***************************************************************************)
\* the keys of the catalog that qualify in the prefix scan for a code
QualifyingKeys(code) ==
    {args.manufacturer.catalog[i].sku : i \in
        {n \in 1..Len(args.manufacturer.catalog) :
            LET normK == normalizeLookup(args.manufacturer.catalog[n].sku)
            IN /\ StartsWith(normK, normalizeLookup(code))
               /\ Len(normK) <= Len(normalizeLookup(code)) + 3}}

\* C19: an output line item priced by the whole-catalog prefix scan is priced from
\* a shortest qualifying key of the catalog, wherever the key is stored.
C19_ShortestPrefixKey ==
    \A j \in 1..Len(Output) :
        LET m == locals[Output[j].id].match
        IN (m.found /\ Includes(m.source, "Global Prefix Match")) =>
               /\ m.matchedSku \in QualifyingKeys(Output[j].originalCode)
               /\ \A k \in QualifyingKeys(Output[j].originalCode) :
                      Len(normalizeLookup(m.matchedSku)) <= Len(normalizeLookup(k))

\* the places p and q of a code <alnum prefix><2-digit width><letters>-<digits>: the
\* width ends at p and the dash is at q
MiddleLetterSplits(code) ==
    {s \in (3..Len(code)) \X (1..Len(code)) :
        /\ s[1] + 1 < s[2]
        /\ s[2] < Len(code)
        /\ AllIn(SubSeq(code, 1, s[1] - 2), Alnums)
        /\ AllIn(SubSeq(code, s[1] - 1, s[1]), Digits)
        /\ AllIn(SubSeq(code, s[1] + 1, s[2] - 1), UpperLetters)
        /\ Ch(code, s[2]) = "-"
        /\ AllIn(From(code, s[2] + 1), Digits)}

\* C20: for every item priced whose original code is <alnum prefix><2-digit
\* width><letters>-<digits>, the similar keys generateSmartKeys returns hold the
\* code without the letters, <prefix><width>-<digits>.
C20_MiddleLettersStripped ==
    \A j \in 1..Len(Output) :
        LET it == InputOf(Output[j])
        IN \A s \in MiddleLetterSplits(it.originalCode) :
               \E i \in 1..Len(generateSmartKeys(it).similar) :
                   generateSmartKeys(it).similar[i] =
                       SubSeq(it.originalCode, 1, s[1]) \o From(it.originalCode, s[2])

(***************************************************************************)
(* Properties of generateSmartKeys                                         *)
(***************************************************************************)
\* the keys of a sequence
KeySet(list) == {list[i] : i \in 1..Len(list)}

\* the keys derived from the dimensions of an item, by its type
DimensionKeys(it) ==
    LET w == NatToString(it.width)
        hWall == NatToString(IF it.height > 0 THEN it.height ELSE 30)
        hTall == NatToString(IF it.height > 0 THEN it.height ELSE 84)
    IN CASE it.type = "Base" ->
                {"B" \o w, "DB" \o w, "SB" \o w, "3DB" \o w, "B" \o w \o "D"}
         [] it.type = "Wall" ->
                {"W" \o w \o hWall}
                    \cup (IF it.depth > 12 THEN {"W" \o w \o hWall \o "-24"} ELSE {})
         [] it.type = "Tall" -> {"U" \o w \o hTall, "T" \o w \o hTall}
         [] it.type = "Filler" -> {"F" \o w}
         [] it.type = "Panel" -> {"PNL" \o w, "BP" \o w}
         [] OTHER -> {}

\* C21: for an item with width > 0 every key derived from its dimensions, by its
\* type, is in the exact list generateSmartKeys returns and not in the similar
\* list, whatever the code of the item is.
C21_DimensionKeysExact ==
    (pc = "keys" /\ keyItem.width > 0) =>
        \A k \in DimensionKeys(keyItem) :
            k \in KeySet(smartKeys.exact) /\ k \notin KeySet(smartKeys.similar)

\* C22: no key occurs twice in the exact list followed by the similar list that
\* generateSmartKeys returns, and every key is upper-case without white space.
C22_KeysDistinctAndClean ==
    pc = "keys" =>
        LET all == smartKeys.exact \o smartKeys.similar
        IN /\ \A i, j \in 1..Len(all) : all[i] = all[j] => i = j
           /\ \A i \in 1..Len(all) :
                  /\ all[i] = ToUpperCase(all[i])
                  /\ \A c \in 1..Len(all[i]) : SubSeq(all[i], c, c) # " "

\* C22 happens: the code SB33 is added as the original, the clean and the
\* normalized code and again from the width, and is in the lists once
C22_AddedOften ==
    /\ pc = "keys"
    /\ keyItem.originalCode = "SB33"
    /\ keyItem.type = "Base"
    /\ keyItem.width = 33
    /\ Cardinality({i \in 1..Len(smartKeys.exact) : smartKeys.exact[i] = "SB33"}) = 1
    /\ "SB33" \notin KeySet(smartKeys.similar)
    /\ "B33" \in KeySet(smartKeys.similar)

(***************************************************************************)
(* A run of getPriceFromItem on its own                                    *)
(***************************************************************************)
\* the names of the columns of the entries of a column run, each with one price
ColumnNames == <<"Standard", "Oak", "Oak Premium", "List Price", "PRICE", "Maple">>

ColumnPriceOf(i) == Num(200 + 10 * i)

MaxCols == 3

\* the entries: at most MaxCols columns of different names, in every order
ColumnLists ==
    UNION {{c \in [1..n -> 1..Len(ColumnNames)] : \A i, j \in 1..n : c[i] = c[j] => i = j} :
              n \in 0..MaxCols}

EntryOf(c) == [i \in 1..Len(c) |-> Col(ColumnNames[c[i]], ColumnPriceOf(c[i]))]

\* the tiers a column run asks for
ColumnTiers == {"Standard", "standard", "Oak", "Premium", "Midland", "Maple Select"}

ColumnInit ==
    /\ pc = "entry"
    /\ entry \in [cols : {EntryOf(c) : c \in ColumnLists}, tierId : ColumnTiers]
    /\ chosen = NoMatch
    /\ CalcIdle
    /\ NormIdle
    /\ PureIdle
    /\ KeysIdle
    /\ FallbackIdle
    /\ CacheIdle

\* getPriceFromItem(catalog[sku], tierId, sku, method), the entry already found
GetPrice ==
    /\ pc = "entry"
    /\ chosen' = getPriceFromItem(entry.cols, entry.tierId, "B15", "Exact")
    /\ pc' = "column"
    /\ UNCHANGED <<entry, calcVars, normVars, pureVars, keysVars, fallbackVars, cacheVars>>

ColumnNext == GetPrice

SpecColumn == ColumnInit /\ [][ColumnNext]_vars

(***************************************************************************)
(* Properties of getPriceFromItem                                          *)
(***************************************************************************)
\* the columns of the entry a rule applies to, by position
NamedAsTier == {i \in 1..Len(entry.cols) : entry.cols[i].name = entry.tierId}

NamedLikeTier ==
    {i \in 1..Len(entry.cols) :
        \/ Includes(ToLowerCase(entry.cols[i].name), ToLowerCase(entry.tierId))
        \/ Includes(ToLowerCase(entry.tierId), ToLowerCase(entry.cols[i].name))}

OnlyColumn == IF Len(entry.cols) = 1 THEN {1} ELSE {}

NamedPriceOrList ==
    {i \in 1..Len(entry.cols) :
        \/ Includes(ToLowerCase(entry.cols[i].name), "price")
        \/ Includes(ToLowerCase(entry.cols[i].name), "list")}

FirstColumn == IF Len(entry.cols) > 0 THEN {1} ELSE {}

\* the columns of the first rule that applies to the entry
RuleColumns ==
    IF NamedAsTier # {} THEN NamedAsTier
    ELSE IF NamedLikeTier # {} THEN NamedLikeTier
    ELSE IF OnlyColumn # {} THEN OnlyColumn
    ELSE IF NamedPriceOrList # {} THEN NamedPriceOrList
    ELSE FirstColumn

\* C23: the price of a found entry is the price of a column of the first rule
\* that applies, in the order: named as the tier, named like the tier (one
\* name contains the other, whatever the case), the only column, a name with
\* "price" or "list", the first column; there is no match exactly when the
\* entry has no columns.
C23_ColumnOrder ==
    pc = "column" =>
        /\ chosen.found <=> Len(entry.cols) > 0
        /\ chosen.found => \E i \in RuleColumns : chosen.price = entry.cols[i].price

\* the tier Oak names no column: "Oak Premium" is taken, not the earlier "List Price"
C23_LikeTierBeforeGeneric ==
    /\ pc = "column"
    /\ entry.tierId = "Oak"
    /\ Len(entry.cols) = 2
    /\ entry.cols[1].name = "List Price"
    /\ entry.cols[2].name = "Oak Premium"
    /\ chosen.found
    /\ chosen.price = ColumnPriceOf(3)

(***************************************************************************)
(* Properties of the strict findCatalogPrice                               *)
(***************************************************************************)
\* the code asked for as findCatalogPrice looks it up: trimmed, in upper case, no spaces
AskedKey == ReplaceAll(ToUpperCase(Trim(lookup.rawSku)), " ", "")

NoHyphens(key) == ReplaceAll(key, "-", "")

\* C24: a strict findCatalogPrice matches by the exact key, the key without hyphens
\* or the key with a hyphen inserted only: the key that supplied the price equals
\* the normalized code once hyphens are removed from both, the source names no
\* neighbor, stripped suffix or core extraction, and an empty or UNKNOWN code is
\* never matched.
C24_StrictStrategies ==
    (pc = "found" /\ lookup.strict) =>
        /\ AskedKey \in {"", "UNKNOWN"} => ~answer.found
        /\ answer.found =>
              /\ \E k \in HeldKeys : /\ answer.price = HeldPrice(k)
                                     /\ NoHyphens(k) = NoHyphens(AskedKey)
              /\ ~Includes(answer.source, "Neighbor")
              /\ ~Includes(answer.source, "Similar")
              /\ ~Includes(answer.source, "Core Extraction")

\* a strict call for W3625 finds nothing although the catalog holds the neighbor W3624
C24_NeighborNotUsed ==
    /\ pc = "found"
    /\ lookup.strict
    /\ lookup.rawSku = "W3625"
    /\ HeldKeys = {"W3624"}
    /\ ~answer.found

(***************************************************************************)
(* A run of findCatalogPrice on codes with a suffix                        *)
(***************************************************************************)
\* the keys the catalogs of a suffix run are made of, each with one price
StripKeys == <<"B15", "B15X", "B1", "B-15", "W3624", "W3625", "W36", "SB">>

RECURSIVE StripCatalogOf(_, _)
StripCatalogOf(picked, i) ==
    IF i > Len(StripKeys) THEN <<>>
    ELSE IF i \in picked
    THEN <<Sku(StripKeys[i], <<Col("Standard", FindPriceOf(i))>>)>>
             \o StripCatalogOf(picked, i + 1)
    ELSE StripCatalogOf(picked, i + 1)

StripCatalogs ==
    {StripCatalogOf(picked, 1) :
        picked \in {q \in SUBSET (1..Len(StripKeys)) : Cardinality(q) <= MaxKeys}}

\* the codes a suffix run asks for
StripCodes ==
    {"B15XL", "B15X", "B15L", "b15 xl", "B1X", "B1XL", "W3625L", "W3625",
     "SB33", "B-15L", "B15-L", "B15"}

StripInit ==
    /\ pc = "find"
    /\ lookup \in [rawSku : StripCodes, catalog : StripCatalogs,
                    tierId : {"Standard"}, strict : BOOLEAN]
    /\ answer = NoMatch
    /\ unsorted = <<>>
    /\ ordered = <<>>
    /\ CalcIdle
    /\ NormIdle
    /\ LaterIdle

SpecStrip == StripInit /\ [][FindNext]_vars

(***************************************************************************)
(* Properties of the suffix stripping and of the core extraction           *)
(***************************************************************************)
\* the lengths of the proper prefixes of the asked key, 3 characters or more, that are keys
PrefixesHeld ==
    {n \in 3..(Len(AskedKey) - 1) : SubSeq(AskedKey, 1, n) \in HeldKeys}

\* strategy 4 matches nothing: the code is no wall code, or no candidate is held
NeighborMisses ==
    ~IsWallKey(AskedKey)
    \/ \A nh \in {HeightOf(AskedKey) + d : d \in {-2, -1, 1, 2}} :
          /\ SubSeq(AskedKey, 1, 3) \o IntToString(nh) \o From(AskedKey, 6) \notin HeldKeys
          /\ SubSeq(AskedKey, 1, 3) \o IntToString(nh) \notin HeldKeys

\* C25: a loose findCatalogPrice that strategies 1 to 4 do not match returns the
\* price of the longest proper prefix of the normalized code that is a catalog
\* key of at least 3 characters, with the stripped rest in the source; the
\* stripping never matches a key of 1 or 2 characters.
C25_LongestPrefix ==
    (/\ pc = "found"
     /\ ~lookup.strict
     /\ StrictMisses
     /\ NeighborMisses)
    => /\ PrefixesHeld # {} =>
            LET n == CHOOSE m \in PrefixesHeld : \A j \in PrefixesHeld : j <= m
            IN /\ answer.found
               /\ answer.price = HeldPrice(SubSeq(AskedKey, 1, n))
               /\ answer.matchedSku = SubSeq(AskedKey, 1, n)
               /\ answer.source = "Catalog (Similar (Stripped " \o From(AskedKey, n + 1) \o ") Tier)"
       /\ Includes(answer.source, "Stripped") =>
            /\ Len(answer.matchedSku) >= 3
            /\ answer.matchedSku \in HeldKeys

\* B15XL is asked for and the catalog holds B15 and B15X: the price is that of B15X
C25_LongerOfTwo ==
    /\ pc = "found"
    /\ ~lookup.strict
    /\ lookup.rawSku = "B15XL"
    /\ HeldKeys = {"B15", "B15X"}
    /\ answer.price = HeldPrice("B15X")
    /\ answer.source = "Catalog (Similar (Stripped L) Tier)"

\* B1X is asked for and the catalog holds B1 alone: nothing is found
C25_ShortKeyMissed ==
    /\ pc = "found"
    /\ ~lookup.strict
    /\ lookup.rawSku = "B1X"
    /\ HeldKeys = {"B1"}
    /\ ~answer.found

\* the leading run of 1 to 4 letters and 2 to 5 digits of the asked key, "" when none
AskedCore == CoreOf(AskedKey)

ExcludedByType(opt, it) ==
    \/ opt.section = "E-Drawer" /\ it.type # "Base"
    \/ opt.section = "F-Hinge" /\ it.type \in {"Filler", "Panel"}
    \/ Includes(ToLowerCase(opt.name), "wall") /\ it.type # "Wall"
    \/ Includes(ToLowerCase(opt.name), "base") /\ it.type # "Base"

\* C26: on every output line item an option that the type of the item excludes,
\* fixed or percentage, is not among appliedOptions, and optionsPrice is the sum
\* of the prices of appliedOptions: the option adds nothing.
C26_ExcludedNeverContributes ==
    \A j \in 1..Len(Output) :
        LET line == Output[j]
            l == locals[line.id]
            it == InputOf(line)
            opts == activeOptions(it, args.manufacturer, args.specs, args.roomSpecs)
        IN /\ \A i \in 1..Len(opts) :
                  ExcludedByType(opts[i], it) =>
                      \A e \in 1..Len(line.appliedOptions) :
                          ~StartsWith(line.appliedOptions[e].name, opts[i].name)
           /\ l.optionsPrice = SumPrices(l.appliedOptionsLog)

\* C27: an output line item whose room has an override without a price group of
\* its own has the tier name resolved from tierId, as the items without an
\* override have.
C27_TierUnchanged ==
    \A j \in 1..Len(Output) :
        LET line == Output[j]
            l == locals[line.id]
            it == InputOf(line)
        IN (/\ Overridden(it)
            /\ "priceGroup" \notin DOMAIN args.roomSpecs[it.room])
           => /\ l.effectiveTierName =
                     globalTierName(args.manufacturer, args.tierId, args.specs)
              /\ line.tierName = l.effectiveTierName

(***************************************************************************)
(* generateWithFallback (part_004:22-53): one call of generateContent per  *)
(* iteration of the loop over MODEL_PRIORITY.  The service answers each    *)
(* call with a result (status 200) or an error of some status.             *)
(***************************************************************************)
MODEL_PRIORITY ==
    <<"gemini-3-pro-preview", "gemini-2.5-pro", "gemini-2.5-flash", "gemini-2.0-flash-exp",
      "gemini-1.5-pro", "gemini-1.5-flash", "gemini-1.0-pro">>

maxRetries == 5

\* the statuses of the errors of the service: rate limit, not found, server error
ErrorStatuses == {429, 404, 500}

Call(model, status) == [model |-> model, status |-> status]

\* where the loop goes after the iteration at MODEL_PRIORITY[attempt]: the next
\* model, or past the loop to throw lastError
AfterIteration == IF attempt = Len(MODEL_PRIORITY) THEN "threw" ELSE "generate"

FallbackInit ==
    /\ pc = "generate"
    /\ attempt = 1
    /\ retries = 0
    /\ delay = 1000
    /\ lastError = 0
    /\ callLog = <<>>
    /\ waited = <<>>
    /\ CalcIdle
    /\ NormIdle
    /\ PureIdle
    /\ KeysIdle
    /\ ColumnIdle
    /\ CacheIdle

\* await ai.models.generateContent resolves: return result
GenerateSucceeds ==
    /\ pc = "generate"
    /\ callLog' = Append(callLog, Call(MODEL_PRIORITY[attempt], 200))
    /\ pc' = "returned"
    /\ UNCHANGED <<attempt, retries, delay, lastError, waited>>
    /\ UNCHANGED <<calcVars, normVars, pureVars, keysVars, columnVars, cacheVars>>

\* await ai.models.generateContent rejects: the catch block, up to its await or
\* to the end of the iteration
GenerateFails ==
    /\ pc = "generate"
    /\ \E status \in ErrorStatuses :
          /\ callLog' = Append(callLog, Call(MODEL_PRIORITY[attempt], status))
          /\ lastError' = status
          /\ IF status = 429 /\ retries < maxRetries
             THEN /\ retries' = retries + 1
                  /\ pc' = "backoff"
                  /\ UNCHANGED attempt
             ELSE /\ attempt' = attempt + 1
                  /\ pc' = AfterIteration
                  /\ UNCHANGED retries
    /\ UNCHANGED <<delay, waited>>
    /\ UNCHANGED <<calcVars, normVars, pureVars, keysVars, columnVars, cacheVars>>

\* the timer of the backoff fires: delay *= 2; continue, which takes the loop
\* to the next model of MODEL_PRIORITY
BackoffElapsed ==
    /\ pc = "backoff"
    /\ waited' = Append(waited, delay)
    /\ delay' = delay * 2
    /\ attempt' = attempt + 1
    /\ pc' = AfterIteration
    /\ UNCHANGED <<retries, lastError, callLog>>
    /\ UNCHANGED <<calcVars, normVars, pureVars, keysVars, columnVars, cacheVars>>

FallbackNext == GenerateSucceeds \/ GenerateFails \/ BackoffElapsed

SpecFallback == FallbackInit /\ [][FallbackNext]_vars

\* every call that is made is answered and every timer fires
SpecFallbackFair == SpecFallback /\ WF_vars(FallbackNext)

(***************************************************************************)
(* Properties of generateWithFallback                                      *)
(***************************************************************************)
\* the retries used before the i-th call: the rate-limit errors before it
RetriesBefore(i) == Cardinality({j \in 1..(i - 1) : callLog[j].status = 429})

\* a call that fails with 429 while retries are left is followed by a call of the same model
SameModelRetried ==
    \A i \in 1..(Len(callLog) - 1) :
        (callLog[i].status = 429 /\ RetriesBefore(i) < maxRetries)
            => callLog[i + 1].model = callLog[i].model

\* the backoffs double from one second on
DelayDoubles ==
    \A i \in 1..Len(waited) : waited[i] = 1000 * 2 ^ (i - 1)

\* one call per model and one more per retry, at most
CallsBounded == Len(callLog) <= Len(MODEL_PRIORITY) + maxRetries

\* the function returns the result of its first successful call, which is its
\* last call, and throws the last error once it has thrown
FirstSuccessOrLastError ==
    /\ \A i \in 1..(Len(callLog) - 1) : callLog[i].status # 200
    /\ pc = "returned" => callLog[Len(callLog)].status = 200
    /\ pc = "threw" => /\ callLog # <<>>
                       /\ lastError = callLog[Len(callLog)].status

\* C29: a call that fails with status 429 while fewer than maxRetries retries
\* have been used is followed, after a backoff that doubles each time, by a call
\* of the same model; the calls are bounded in number, and the function returns
\* its first success or throws its last error.
C29_RetrySameModelThenFallBack ==
    /\ SameModelRetried
    /\ DelayDoubles
    /\ CallsBounded
    /\ FirstSuccessOrLastError

\* the function comes to an end
FallbackEnds == <>(pc \in {"returned", "threw"})

(***************************************************************************)
(* The catalog cache of StorageService (part_004:574, 616-657, 727-772,    *)
(* 823-834) for one manufacturer id.  A catalog is the number of the save  *)
(* that wrote it, 1 for a file stored by an earlier session; 0 is no       *)
(* catalog: no file, no cache entry, or the {} that a failed download      *)
(* returns.  Each await of a handler is a step of its own, so the calls    *)
(* interleave at their awaits as the event loop lets them.                 *)
(***************************************************************************)
Getters == {"g1", "g2"}

\* the saves, deletes and clears of a run
MaxOps == 2

Idle == [stage |-> "idle", data |-> 0, after |-> 0]

\* the catalog a call that starts now comes after the completed save of; 0 when none
SavedNow == IF latest > 0 THEN latest ELSE 0

\* a save, a delete or a clear starts: the calls in flight no longer come
\* after the last completed save
Released == [g \in Getters |-> [getters[g] EXCEPT !.after = 0]]

\* what the steps of the cache run leave alone
cacheFrame == <<pc, calcVars, normVars, pureVars, keysVars, columnVars, fallbackVars>>

CacheInit ==
    /\ pc = "storage"
    /\ bucket \in {0, 1}
    /\ catalogCache = 0
    /\ getters = [g \in Getters |-> Idle]
    /\ writer = [op |-> "none"]
    /\ ops = 0
    /\ latest = 0
    /\ served = [value |-> 0, after |-> 0]
    /\ CalcIdle
    /\ NormIdle
    /\ PureIdle
    /\ KeysIdle
    /\ ColumnIdle
    /\ FallbackIdle

\* getManufacturerCatalog: the cache has the id, the entry is returned
GetFromCache(g) ==
    /\ getters[g].stage = "idle"
    /\ catalogCache # 0
    /\ served' = [value |-> catalogCache, after |-> SavedNow]
    /\ UNCHANGED <<bucket, catalogCache, getters, writer, ops, latest>>
    /\ UNCHANGED cacheFrame

\* getManufacturerCatalog: the cache has no entry, up to await download
GetDownload(g) ==
    /\ getters[g].stage = "idle"
    /\ catalogCache = 0
    /\ getters' = [getters EXCEPT ![g] = [stage |-> "download", data |-> 0,
                                           after |-> SavedNow]]
    /\ UNCHANGED <<bucket, catalogCache, writer, ops, latest, served>>
    /\ UNCHANGED cacheFrame

\* the download is answered: with an error when there is no file (return {}),
\* with the file otherwise, up to await data.text()
DownloadAnswered(g) ==
    /\ getters[g].stage = "download"
    /\ IF bucket = 0
       THEN /\ served' = [value |-> 0, after |-> getters[g].after]
            /\ getters' = [getters EXCEPT ![g] = Idle]
       ELSE /\ getters' = [getters EXCEPT ![g].stage = "text", ![g].data = bucket]
            /\ UNCHANGED served
    /\ UNCHANGED <<bucket, catalogCache, writer, ops, latest>>
    /\ UNCHANGED cacheFrame

\* data.text() resolves: catalogCache.set(mfgId, json); return json
TextRead(g) ==
    /\ getters[g].stage = "text"
    /\ catalogCache' = getters[g].data
    /\ served' = [value |-> getters[g].data, after |-> getters[g].after]
    /\ getters' = [getters EXCEPT ![g] = Idle]
    /\ UNCHANGED <<bucket, writer, ops, latest>>
    /\ UNCHANGED cacheFrame

\* saveManufacturer with a catalog that has keys, up to await ensureBucket()
SaveStart ==
    /\ writer.op = "none"
    /\ ops < MaxOps
    /\ writer' = [op |-> "save", stage |-> "ensure", catalog |-> ops + 2]
    /\ ops' = ops + 1
    /\ latest' = 0
    /\ getters' = Released
    /\ UNCHANGED <<bucket, catalogCache, served>>
    /\ UNCHANGED cacheFrame

\* ensureBucket() resolves, up to await upload
EnsureDone ==
    /\ writer.op = "save"
    /\ writer.stage = "ensure"
    /\ writer' = [writer EXCEPT !.stage = "upload"]
    /\ UNCHANGED <<bucket, catalogCache, getters, ops, latest, served>>
    /\ UNCHANGED cacheFrame

\* the upload is answered, stored or with uploadError, which is logged:
\* catalogCache.set(mfg.id, catalogToSave), up to await upsert
UploadAnswered ==
    /\ writer.op = "save"
    /\ writer.stage = "upload"
    /\ \E stored \in BOOLEAN : bucket' = IF stored THEN writer.catalog ELSE bucket
    /\ catalogCache' = writer.catalog
    /\ writer' = [writer EXCEPT !.stage = "upsert"]
    /\ UNCHANGED <<getters, ops, latest, served>>
    /\ UNCHANGED cacheFrame

\* the upsert of the metadata is answered: saveManufacturer has completed
UpsertAnswered ==
    /\ writer.op = "save"
    /\ writer.stage = "upsert"
    /\ latest' = writer.catalog
    /\ writer' = [op |-> "none"]
    /\ UNCHANGED <<bucket, catalogCache, getters, ops, served>>
    /\ UNCHANGED cacheFrame

\* deleteManufacturer, up to await remove
DeleteStart ==
    /\ writer.op = "none"
    /\ ops < MaxOps
    /\ writer' = [op |-> "delete", stage |-> "remove"]
    /\ ops' = ops + 1
    /\ latest' = 0
    /\ getters' = Released
    /\ UNCHANGED <<bucket, catalogCache, served>>
    /\ UNCHANGED cacheFrame

\* the file is removed, up to await delete of the row
RemoveAnswered ==
    /\ writer.op = "delete"
    /\ writer.stage = "remove"
    /\ bucket' = 0
    /\ writer' = [writer EXCEPT !.stage = "row"]
    /\ UNCHANGED <<catalogCache, getters, ops, latest, served>>
    /\ UNCHANGED cacheFrame

\* the row is deleted: this.clearCatalogCache(id); deleteManufacturer has completed
RowDeleted ==
    /\ writer.op = "delete"
    /\ writer.stage = "row"
    /\ catalogCache' = 0
    /\ latest' = -1
    /\ writer' = [op |-> "none"]
    /\ UNCHANGED <<bucket, getters, ops, served>>
    /\ UNCHANGED cacheFrame

\* clearCatalogCache(mfgId) called on its own, no save or delete under way
ClearCache ==
    /\ writer.op = "none"
    /\ ops < MaxOps
    /\ catalogCache' = 0
    /\ ops' = ops + 1
    /\ latest' = 0
    /\ getters' = Released
    /\ UNCHANGED <<bucket, writer, served>>
    /\ UNCHANGED cacheFrame

CacheNext ==
    \/ \E g \in Getters : GetFromCache(g)
    \/ \E g \in Getters : GetDownload(g)
    \/ \E g \in Getters : DownloadAnswered(g)
    \/ \E g \in Getters : TextRead(g)
    \/ SaveStart
    \/ EnsureDone
    \/ UploadAnswered
    \/ UpsertAnswered
    \/ DeleteStart
    \/ RemoveAnswered
    \/ RowDeleted
    \/ ClearCache

SpecCache == CacheInit /\ [][CacheNext]_vars

(***************************************************************************)
(* Properties of the catalog cache                                         *)
(***************************************************************************)
\* a call of getManufacturerCatalog made after a save completed, with no save,
\* delete or clear started since, returned the catalog of that save
ServedTheSaved == served.after # 0 => served.value = served.after

\* once deleteManufacturer has completed the cache has no entry for the id
NoEntryAfterDelete == latest = -1 => catalogCache = 0

\* C30: after a completed saveManufacturer with a non-empty catalog every later
\* getManufacturerCatalog returns the saved catalog until the next save, delete
\* or clear, whatever downloads were in flight during the save; and after a
\* completed deleteManufacturer the cache holds no entry for the id.
C30_CacheCoherent == ServedTheSaved /\ NoEntryAfterDelete

====
